---- MODULE Spec2Model ----
(***************************************************************************)
(* A model of the chat core of the MyTravel backend: the keyword intent    *)
(* router (MasterOrchestrator), the five responders it dispatches to, and  *)
(* the two chat endpoints that persist messages and stream replies.        *)
(*                                                                         *)
(* Text is modelled as a sequence of characters.  A character is a string: *)
(* an ASCII character is itself, a Vietnamese letter is spelled in VIQR    *)
(* (a( = a-breve, a^ = a-circumflex, o+ / u+ = horn, dd = d-stroke, then   *)
(* the tone: ' acute, _ grave, ? hook, ~ tilde, . dot below).              *)
(***************************************************************************)
EXTENDS Integers, Sequences, FiniteSets, TLC

VARIABLES
    store,       \* rows of the conversation's messages, in created_at order
    pc,          \* position of the request in flight
    caller,      \* who issued the request in flight
    failure,     \* the collaborator failure injected into the request, or "none"
    st,          \* the OrchestratorState of the invocation in flight
    trace,       \* workflow nodes the invocation has run, in order
    agentReply,  \* what the selected responder's process returned
    agentCalls,  \* number of responder process calls of the invocation
    agentFault,  \* the step of the responder that raised, or "none"
    searchCall,  \* the search the responder made: what the upstream did and
                 \* what the integration returned; None when none was made
    agentContext,\* the AgentContext handed to the responder, or None
    llmRequest,  \* the last request made to the provider, or None
    inv,         \* the invocations of process in flight on the shared
                 \* orchestrator, when several run concurrently
    fnInput,     \* the argument of a helper called on its own (entity
                 \* extraction, prompt building, structured generation)
    fnOutput,    \* what that call returned, or None before it returns
    llmCalls,    \* number of provider calls of the invocation
    reply,       \* what MasterOrchestrator.process returned (or that it raised)
    events,      \* events the streaming endpoint has emitted
    chunkAt,     \* loop variable i of the streaming chunk loop
    http,        \* status of the finished request
    db           \* the trips database: trips and the records attached to them

vars == << store, pc, caller, failure, st, trace, agentReply, agentCalls,
           agentFault, searchCall, agentContext, llmRequest, inv, fnInput, fnOutput, llmCalls,
           reply,
           events, chunkAt, http, db >>

-----------------------------------------------------------------------------
(* Strings *)

UpperToLower ==
    "A" :> "a" @@ "B" :> "b" @@ "C" :> "c" @@ "D" :> "d" @@ "E" :> "e" @@ "F" :> "f" @@
    "G" :> "g" @@ "H" :> "h" @@ "I" :> "i" @@ "J" :> "j" @@ "K" :> "k" @@ "L" :> "l" @@
    "M" :> "m" @@ "N" :> "n" @@ "O" :> "o" @@ "P" :> "p" @@ "Q" :> "q" @@ "R" :> "r" @@
    "S" :> "s" @@ "T" :> "t" @@ "U" :> "u" @@ "V" :> "v" @@ "W" :> "w" @@ "X" :> "x" @@
    "Y" :> "y" @@ "Z" :> "z" @@ "DD" :> "dd" @@ "U+" :> "u+"


\* str.lower() on one character
Lower(c) == IF c \in DOMAIN UpperToLower THEN UpperToLower[c] ELSE c

\* str.lower()
LowerStr(s) == [i \in 1..Len(s) |-> Lower(s[i])]

\* Python's  sub in s  on strings
Contains(sub, s) ==
    \E i \in 1..(Len(s) - Len(sub) + 1) : SubSeq(s, i, i + Len(sub) - 1) = sub

\* Python truthiness of an Optional[str] field ("None" stands for None)
Truthy(x) == x \notin {"None", ""}

None == [tag |-> "None"]

-----------------------------------------------------------------------------
(* Intent classification (MasterOrchestrator) *)

\* The five AgentType members that have a responder, in declaration order,
\* which is the insertion order of self.agents and self.intent_keywords.
AgentOrder == << "accommodation", "food", "transport", "itinerary", "budget" >>

Domains == {AgentOrder[i] : i \in 1..Len(AgentOrder)}

GENERAL == "general"

intent_keywords ==
    [ accommodation |->
        << <<"k", "h", "a'", "c", "h", " ", "s", "a.", "n">>, <<"h", "o", "t", "e", "l">>,
           <<"p", "h", "o_", "n", "g">>, <<"r", "o", "o", "m">>,
           <<"l", "u+", "u", " ", "t", "r", "u'">>, <<"s", "t", "a", "y">>,
           <<"dd", "a(.", "t", " ", "p", "h", "o_", "n", "g">>,
           <<"b", "o", "o", "k", "i", "n", "g">>, <<"r", "e", "s", "o", "r", "t">>,
           <<"h", "o", "m", "e", "s", "t", "a", "y">>, <<"h", "o", "s", "t", "e", "l">>,
           <<"c", "h", "o^~", " ", "o+?">>,
           <<"a", "c", "c", "o", "m", "m", "o", "d", "a", "t", "i", "o", "n">>,
           <<"c", "h", "e", "c", "k", "-", "i", "n">>,
           <<"c", "h", "e", "c", "k", "-", "o", "u", "t">> >>,
      food |->
        << <<"a(", "n">>, <<"e", "a", "t">>, <<"n", "h", "a_", " ", "h", "a_", "n", "g">>,
           <<"r", "e", "s", "t", "a", "u", "r", "a", "n", "t">>, <<"q", "u", "a'", "n">>,
           <<"m", "o'", "n">>, <<"dd", "a(.", "c", " ", "s", "a?", "n">>, <<"f", "o", "o", "d">>,
           <<"c", "u", "i", "s", "i", "n", "e">>, <<"b", "u'", "n">>, <<"p", "h", "o+?">>,
           <<"b", "a'", "n", "h">>, <<"dd", "o'", "i">>, <<"h", "u", "n", "g", "r", "y">>,
           <<"a^?", "m", " ", "t", "h", "u+.", "c">>, <<"m", "e", "n", "u">>,
           <<"d", "r", "i", "n", "k">>, <<"c", "a", "f", "e'">> >>,
      transport |->
        << <<"dd", "i">>, <<"t", "r", "a", "v", "e", "l">>, <<"b", "a", "y">>,
           <<"f", "l", "i", "g", "h", "t">>, <<"m", "a'", "y", " ", "b", "a", "y">>,
           <<"x", "e">>, <<"b", "u", "s">>, <<"t", "a_", "u">>, <<"t", "r", "a", "i", "n">>,
           <<"g", "r", "a", "b">>, <<"t", "a", "x", "i">>,
           <<"d", "i", " ", "c", "h", "u", "y", "e^?", "n">>,
           <<"t", "r", "a", "n", "s", "p", "o", "r", "t">>, <<"v", "e'">>,
           <<"t", "i", "c", "k", "e", "t">>, <<"s", "a^", "n", " ", "b", "a", "y">>,
           <<"a", "i", "r", "p", "o", "r", "t">>, <<"t", "h", "u", "e^", " ", "x", "e">> >>,
      itinerary |->
        << <<"l", "i.", "c", "h", " ", "t", "r", "i_", "n", "h">>,
           <<"i", "t", "i", "n", "e", "r", "a", "r", "y">>,
           <<"k", "e^'", " ", "h", "o", "a.", "c", "h">>, <<"p", "l", "a", "n">>,
           <<"s", "c", "h", "e", "d", "u", "l", "e">>, <<"n", "g", "a_", "y">>,
           <<"d", "a", "y">>, <<"t", "h", "a", "m", " ", "q", "u", "a", "n">>,
           <<"v", "i", "s", "i", "t">>, <<"dd", "i", "e^?", "m", " ", "dd", "e^'", "n">>,
           <<"d", "e", "s", "t", "i", "n", "a", "t", "i", "o", "n">>, <<"t", "o", "u", "r">>,
           <<"h", "o", "a.", "t", " ", "dd", "o^.", "n", "g">>,
           <<"a", "c", "t", "i", "v", "i", "t", "y">>, <<"s", "a('", "p", " ", "x", "e^'", "p">> >>,
      budget |->
        << <<"n", "g", "a^", "n", " ", "s", "a'", "c", "h">>, <<"b", "u", "d", "g", "e", "t">>,
           <<"c", "h", "i", " ", "p", "h", "i'">>, <<"c", "o", "s", "t">>,
           <<"t", "i", "e^_", "n">>, <<"m", "o", "n", "e", "y">>, <<"g", "i", "a'">>,
           <<"p", "r", "i", "c", "e">>, <<"r", "e?">>, <<"c", "h", "e", "a", "p">>,
           <<"dd", "a('", "t">>, <<"e", "x", "p", "e", "n", "s", "i", "v", "e">>,
           <<"t", "i", "e^'", "t", " ", "k", "i", "e^.", "m">>, <<"s", "a", "v", "e">>,
           <<"t", "o^'", "n">>, <<"s", "p", "e", "n", "d">>,
           <<"u+", "o+'", "c", " ", "t", "i'", "n", "h">>,
           <<"e", "s", "t", "i", "m", "a", "t", "e">> >> ]

\* The number of places at which sub occurs in s
Occurrences(sub, s) ==
    Cardinality({i \in 1..(Len(s) - Len(sub) + 1) : SubSeq(s, i, i + Len(sub) - 1) = sub})

\* The score as it would be with every occurrence of a keyword counted
RECURSIVE CountHitsEveryOccurrence(_, _, _)
CountHitsEveryOccurrence(keywords, message_lower, i) ==
    IF i > Len(keywords) THEN 0
    ELSE Occurrences(keywords[i], message_lower)
         + CountHitsEveryOccurrence(keywords, message_lower, i + 1)

\* sum(1 for kw in keywords if kw in message_lower)
RECURSIVE CountHits(_, _, _)
CountHits(keywords, message_lower, i) ==
    IF i > Len(keywords) THEN 0
    ELSE (IF Contains(keywords[i], message_lower) THEN 1 ELSE 0)
         + CountHits(keywords, message_lower, i + 1)

Score(agent_type, message_lower) ==
    CountHits(intent_keywords[agent_type], message_lower, 1)

\* The dict  scores : the domains whose score is > 0, in insertion order.
ScoredDomains(message_lower) ==
    SelectSeq(AgentOrder, LAMBDA d : Score(d, message_lower) > 0)

\* max as it would be if the last of the keys with the highest value won
RECURSIVE MaxKeyLast(_, _, _, _)
MaxKeyLast(keys, message_lower, i, best) ==
    IF i > Len(keys) THEN best
    ELSE IF Score(keys[i], message_lower) >= Score(best, message_lower)
         THEN MaxKeyLast(keys, message_lower, i + 1, keys[i])
         ELSE MaxKeyLast(keys, message_lower, i + 1, best)

\* max(scores, key=scores.get): the first key, in iteration order, whose
\* value no later key exceeds strictly.
RECURSIVE MaxKey(_, _, _, _)
MaxKey(keys, message_lower, i, best) ==
    IF i > Len(keys) THEN best
    ELSE IF Score(keys[i], message_lower) > Score(best, message_lower)
         THEN MaxKey(keys, message_lower, i + 1, keys[i])
         ELSE MaxKey(keys, message_lower, i + 1, best)

\* _classify_intent without  message.lower()
ClassifyIntentCaseSensitive(message) ==
    LET keys == ScoredDomains(message)
    IN  IF Len(keys) > 0
        THEN MaxKey(keys, message, 2, keys[1])
        ELSE GENERAL

\* _classify_intent: the value it stores in state.selected_agent
ClassifyIntent(message) ==
    LET message_lower == LowerStr(message)
        keys == ScoredDomains(message_lower)
    IN  IF Len(keys) > 0
        THEN MaxKey(keys, message_lower, 2, keys[1])
        ELSE GENERAL

\* _should_use_agent without the comparison with AgentType.GENERAL
ShouldUseAgentAnySelected(selected_agent) ==
    IF Truthy(selected_agent) THEN "agent" ELSE "general"

\* _should_use_agent
ShouldUseAgent(selected_agent) ==
    IF Truthy(selected_agent) /\ selected_agent # GENERAL THEN "agent" ELSE "general"

-----------------------------------------------------------------------------
(* Values *)

\* A Python value with its runtime type: pydantic validates the type.
StrVal(v) == [type |-> "str", value |-> v]
IntVal(v) == [type |-> "int", value |-> v]
FloatVal(v) == [type |-> "float", value |-> v]

\* type(v).__name__
TypeOf(v) == IF v = None THEN "NoneType" ELSE v.type

\* trip_data.get(key, default)
DictGet(d, key, default) == IF key \in DOMAIN d THEN d[key] ELSE default

Digits == << "0", "1", "2", "3", "4", "5", "6", "7", "8", "9" >>

DigitValue(c) == CHOOSE v \in 0..9 : Digits[v + 1] = c

\* int(...) of a string of digits
RECURSIVE ParseInt(_)
ParseInt(digits) ==
    IF Len(digits) = 0 THEN 0
    ELSE 10 * ParseInt(SubSeq(digits, 1, Len(digits) - 1))
         + DigitValue(digits[Len(digits)])

\* An OrchestratorState that starts with an agent already selected.
OrchestratorStatePreset(message, user_id, trip_id, trip_data, conversation_history) ==
    [ message              |-> message,
      user_id              |-> user_id,
      trip_id              |-> trip_id,
      trip_data            |-> trip_data,
      conversation_history |-> conversation_history,
      selected_agent       |-> "general",
      response             |-> None,
      error                |-> "None" ]

\* OrchestratorState as process constructs it: selected_agent, response and
\* error take their defaults.
OrchestratorState(message, user_id, trip_id, trip_data, conversation_history) ==
    [ message              |-> message,
      user_id              |-> user_id,
      trip_id              |-> trip_id,
      trip_data            |-> trip_data,
      conversation_history |-> conversation_history,
      selected_agent       |-> "None",
      response             |-> None,
      error                |-> "None" ]

\* The tables of records attached to a trip that the API can change.
RecordKinds == {"accommodations", "restaurants", "activities", "expenses"}

\* The database before any trip is created: no rows, every id counter at 0.
EmptyDb ==
    [ trips     |-> {},
      records   |-> {},
      last_trip |-> 0,
      last_id   |-> [kind \in RecordKinds |-> 0] ]

\* The model's value of every variable while no request is in flight.
Quiet ==
    /\ st = None
    /\ trace = << >>
    /\ agentReply = None
    /\ agentCalls = 0
    /\ agentFault = "none"
    /\ searchCall = None
    /\ agentContext = None
    /\ llmRequest = None
    /\ inv = << >>
    /\ fnInput = None
    /\ fnOutput = None
    /\ llmCalls = 0
    /\ reply = None
    /\ events = << >>
    /\ chunkAt = 0
    /\ http = 0
    /\ db = EmptyDb
    /\ failure = "none"

-----------------------------------------------------------------------------
(* Responders (BaseAgent and its five subclasses) *)

\* AgentResponse as it would be with a declared field  actions
AgentResponseWithActions(message, agent_type, data, suggestions, requires_followup) ==
    [ message           |-> message,
      agent_type        |-> agent_type,
      data              |-> data,
      suggestions       |-> suggestions,
      requires_followup |-> requires_followup,
      next_agent        |-> "None",
      metadata          |-> << >>,
      actions           |-> << >> ]

\* AgentResponse: the fields the model declares.  There is no field
\* "actions", and reading an attribute a pydantic model does not have raises
\* AttributeError.
AgentResponse(message, agent_type, data, suggestions, requires_followup) ==
    [ message           |-> message,
      agent_type        |-> agent_type,
      data              |-> data,
      suggestions       |-> suggestions,
      requires_followup |-> requires_followup,
      next_agent        |-> "None",
      metadata          |-> << >> ]

HasAttr(obj, name) == name \in DOMAIN obj

\* An exception in flight, where a value was expected.
Raised(error) == [tag |-> "raised", error |-> error]

IsRaised(x) == "tag" \in DOMAIN x /\ x.tag = "raised"

\* AgentContext as _route_to_agent builds it.
AgentContext(user_id, trip_id, message, conversation_history, trip_data) ==
    [ user_id              |-> user_id,
      trip_id              |-> trip_id,
      message              |-> message,
      conversation_history |-> conversation_history,
      trip_data            |-> trip_data ]

restaurant_keywords ==
    << <<"n", "h", "a_", " ", "h", "a_", "n", "g">>, <<"q", "u", "a'", "n", " ", "a(", "n">>,
       <<"q", "u", "a'", "n">>, <<"a(", "n", " ", "o+?", " ", "dd", "a^", "u">>,
       <<"c", "h", "o^~", " ", "a(", "n">>, <<"dd", "i", " ", "a(", "n">>,
       <<"r", "e", "s", "t", "a", "u", "r", "a", "n", "t">>,
       <<"dd", "a(.", "t", " ", "b", "a_", "n">> >>

dish_keywords ==
    << <<"m", "o'", "n", " ", "g", "i_">>, <<"a(", "n", " ", "g", "i_">>,
       <<"dd", "a(.", "c", " ", "s", "a?", "n">>, <<"n", "e^", "n", " ", "t", "h", "u+?">>,
       <<"m", "o'", "n", " ", "n", "g", "o", "n">>, <<"p", "h", "a?", "i", " ", "a(", "n">>,
       <<"m", "u", "s", "t", " ", "t", "r", "y">>,
       <<"s", "p", "e", "c", "i", "a", "l", "t", "y">> >>

inter_city_keywords ==
    << <<"m", "a'", "y", " ", "b", "a", "y">>,
       <<"c", "h", "u", "y", "e^'", "n", " ", "b", "a", "y">>, <<"f", "l", "i", "g", "h", "t">>,
       <<"t", "a_", "u">>, <<"x", "e", " ", "k", "h", "a'", "c", "h">>, <<"t", "u+_">>,
       <<"dd", "e^'", "n">>, <<"l", "i", "e^", "n", " ", "t", "i?", "n", "h">>,
       <<"b", "u", "s">> >>

local_keywords ==
    << <<"g", "r", "a", "b">>, <<"t", "a", "x", "i">>, <<"x", "e", " ", "m", "a'", "y">>,
       <<"t", "h", "u", "e^", " ", "x", "e">>,
       <<"n", "o^.", "i", " ", "t", "h", "a_", "n", "h">>,
       <<"d", "i", " ", "c", "h", "u", "y", "e^?", "n">> >>

create_keywords ==
    << <<"l", "a^.", "p", " ", "l", "i.", "c", "h">>,
       <<"t", "a.", "o", " ", "l", "i.", "c", "h">>,
       <<"k", "e^'", " ", "h", "o", "a.", "c", "h">>, <<"s", "c", "h", "e", "d", "u", "l", "e">>,
       <<"i", "t", "i", "n", "e", "r", "a", "r", "y">>, <<"p", "l", "a", "n">> >>

modify_keywords ==
    << <<"t", "h", "a", "y", " ", "dd", "o^?", "i">>, <<"s", "u+?", "a">>, <<"dd", "o^?", "i">>,
       <<"t", "h", "e^", "m">>, <<"b", "o+'", "t">>, <<"m", "o", "d", "i", "f", "y">> >>

attraction_keywords ==
    << <<"dd", "i", "e^?", "m", " ", "t", "h", "a", "m", " ", "q", "u", "a", "n">>,
       <<"dd", "i", " ", "dd", "a^", "u">>, <<"x", "e", "m", " ", "g", "i_">>,
       <<"a", "t", "t", "r", "a", "c", "t", "i", "o", "n">>, <<"v", "i", "s", "i", "t">> >>

estimate_keywords ==
    << <<"u+", "o+'", "c", " ", "t", "i'", "n", "h">>,
       <<"b", "a", "o", " ", "n", "h", "i", "e^", "u">>, <<"c", "h", "i", " ", "p", "h", "i'">>,
       <<"t", "o^'", "n">>, <<"c", "o", "s", "t">>, <<"e", "s", "t", "i", "m", "a", "t", "e">> >>

optimize_keywords ==
    << <<"t", "i", "e^'", "t", " ", "k", "i", "e^.", "m">>, <<"g", "i", "a?", "m">>,
       <<"t", "o^'", "i", " ", "u+", "u">>, <<"r", "e?", " ", "h", "o+", "n">>,
       <<"s", "a", "v", "e">>, <<"o", "p", "t", "i", "m", "i", "z", "e">> >>

breakdown_keywords ==
    << <<"p", "h", "a^", "n", " ", "b", "o^?">>, <<"c", "h", "i", "a">>,
       <<"b", "r", "e", "a", "k", "d", "o", "w", "n">>,
       <<"c", "h", "i", " ", "t", "i", "e^'", "t">>,
       <<"h", "a.", "n", "g", " ", "m", "u.", "c">> >>

locations ==
    << <<"H", "a_", " ", "N", "o^.", "i">>, <<"H", "a", "n", "o", "i">>, <<"H", "C", "M">>,
       <<"H", "o^_", " ", "C", "h", "i'", " ", "M", "i", "n", "h">>,
       <<"S", "a", "i", "g", "o", "n">>, <<"S", "a_", "i", " ", "G", "o_", "n">>,
       <<"DD", "a_", " ", "N", "a(~", "n", "g">>, <<"D", "a", " ", "N", "a", "n", "g">>,
       <<"H", "u", "e^'">>, <<"H", "u", "e">>, <<"H", "o^.", "i", " ", "A", "n">>,
       <<"H", "o", "i", " ", "A", "n">>, <<"N", "h", "a", " ", "T", "r", "a", "n", "g">>,
       <<"DD", "a_", " ", "L", "a.", "t">>, <<"D", "a", " ", "L", "a", "t">>,
       <<"P", "h", "u'", " ", "Q", "u", "o^'", "c">>, <<"P", "h", "u", " ", "Q", "u", "o", "c">>,
       <<"H", "a.", " ", "L", "o", "n", "g">>, <<"H", "a", " ", "L", "o", "n", "g">>,
       <<"S", "a", "p", "a">>, <<"S", "a", " ", "P", "a">>,
       <<"C", "a^_", "n", " ", "T", "h", "o+">>, <<"C", "a", "n", " ", "T", "h", "o">> >>

\* extract_entities, the gazetteer part: entities["locations"], which is
\* absent (here empty) when no location occurs in the text.
ExtractLocations(text) ==
    SelectSeq(locations, LAMBDA loc : Contains(LowerStr(loc), LowerStr(text)))

\* for kw in keywords: if kw in message_lower: ...
AnyKeyword(keywords, message_lower) ==
    \E i \in 1..Len(keywords) : Contains(keywords[i], message_lower)

\* FoodAgent._determine_intent
FoodIntent(message) ==
    LET message_lower == LowerStr(message)
    IN  IF AnyKeyword(restaurant_keywords, message_lower) THEN "search_restaurant"
        ELSE IF AnyKeyword(dish_keywords, message_lower) THEN "recommend_dish"
        ELSE "general"

\* TransportAgent._determine_transport_intent
TransportIntent(message) ==
    LET message_lower == LowerStr(message)
    IN  IF AnyKeyword(inter_city_keywords, message_lower) THEN "inter_city"
        ELSE IF AnyKeyword(local_keywords, message_lower) THEN "local"
        ELSE "general"

\* ItineraryAgent._determine_intent
ItineraryIntent(message) ==
    LET message_lower == LowerStr(message)
    IN  IF AnyKeyword(create_keywords, message_lower) THEN "create_itinerary"
        ELSE IF AnyKeyword(modify_keywords, message_lower) THEN "modify_itinerary"
        ELSE IF AnyKeyword(attraction_keywords, message_lower) THEN "find_attractions"
        ELSE "general"

\* _determine_intent with the optimize loop moved before the estimate loop
BudgetIntentOptimizeFirst(message) ==
    LET message_lower == LowerStr(message)
    IN  IF AnyKeyword(optimize_keywords, message_lower) THEN "optimize"
        ELSE IF AnyKeyword(estimate_keywords, message_lower) THEN "estimate"
        ELSE IF AnyKeyword(breakdown_keywords, message_lower) THEN "breakdown"
        ELSE "general"

\* BudgetAgent._determine_intent
BudgetIntent(message) ==
    LET message_lower == LowerStr(message)
    IN  IF AnyKeyword(estimate_keywords, message_lower) THEN "estimate"
        ELSE IF AnyKeyword(optimize_keywords, message_lower) THEN "optimize"
        ELSE IF AnyKeyword(breakdown_keywords, message_lower) THEN "breakdown"
        ELSE "general"

\* bool(v) of a snapshot value
TruthyValue(v) ==
    CASE TypeOf(v) = "NoneType" -> FALSE
      [] TypeOf(v) = "str"      -> Len(v.value) > 0
      [] OTHER                  -> v.value # 0

\* if context.trip_data:  (None and the empty dict are falsy)
HasTripData(context) ==
    context.trip_data # None /\ DOMAIN context.trip_data # {}

\* trip_data.get("destination", "") when there is a snapshot
Destination(trip_data) ==
    LET destination == DictGet(trip_data, "destination", StrVal(<< >>))
    IN  IF TypeOf(destination) = "str" THEN destination.value ELSE << >>

\* _can_perform_search without its look at the trip snapshot
CanPerformSearchEntitiesOnly(context, found_locations) ==
    Len(found_locations) > 0

\* AccommodationAgent._can_perform_search
CanPerformSearch(context, found_locations) ==
    LET has_location == Len(found_locations) > 0
    IN  IF ~has_location /\ HasTripData(context)
        THEN Len(Destination(context.trip_data)) > 0
        ELSE has_location

\* The search location of _search_hotels, _search_restaurants,
\* _create_itinerary and _find_attractions.  Python reads
\*     a or b if c else d     as     (a or b) if c else d
SearchLocation(context, found_locations) ==
    IF HasTripData(context)
    THEN IF Len(found_locations) > 0 /\ Len(found_locations[1]) > 0
         THEN found_locations[1]
         ELSE Destination(context.trip_data)
    ELSE << >>

\* The canned reply texts.
ROUTING_ERROR_MESSAGE ==
    << "X", "i", "n", " ", "l", "o^~", "i", ",", " ", "t", "o^", "i", " ", "g", "a(.", "p",
       " ", "s", "u+.", " ", "c", "o^'", " ", "k", "h", "i", " ", "x", "u+?", " ", "l",
       "y'", " ", "y", "e^", "u", " ", "c", "a^_", "u", " ", "c", "u?", "a", " ", "b",
       "a.", "n", ".", " ", "B", "a.", "n", " ", "c", "o'", " ", "t", "h", "e^?", " ", "t",
       "h", "u+?", " ", "l", "a.", "i", "?" >>

ORCHESTRATOR_ERROR_MESSAGE ==
    << "X", "i", "n", " ", "l", "o^~", "i", ",", " ", "c", "o'", " ", "l", "o^~", "i", " ",
       "x", "a?", "y", " ", "r", "a", ".", " ", "V", "u", "i", " ", "l", "o_", "n", "g",
       " ", "t", "h", "u+?", " ", "l", "a.", "i", " ", "s", "a", "u", "." >>

ACCOMMODATION_APOLOGY ==
    << "X", "i", "n", " ", "l", "o^~", "i", ",", " ", "t", "o^", "i", " ", "g", "a(.", "p",
       " ", "s", "u+.", " ", "c", "o^'", " ", "k", "h", "i", " ", "t", "i_", "m", " ", "k",
       "i", "e^'", "m", " ", "k", "h", "a'", "c", "h", " ", "s", "a.", "n", ".", " ", "B",
       "a.", "n", " ", "c", "o'", " ", "t", "h", "e^?", " ", "t", "h", "u+?", " ", "l",
       "a.", "i", " ", "dd", "u+", "o+.", "c", " ", "k", "h", "o^", "n", "g", "?" >>

FOOD_APOLOGY ==
    << "X", "i", "n", " ", "l", "o^~", "i", ",", " ", "t", "o^", "i", " ", "g", "a(.", "p",
       " ", "s", "u+.", " ", "c", "o^'", " ", "k", "h", "i", " ", "t", "i_", "m", " ", "k",
       "i", "e^'", "m", " ", "n", "h", "a_", " ", "h", "a_", "n", "g", ".", " ", "B", "a.",
       "n", " ", "c", "o'", " ", "t", "h", "e^?", " ", "t", "h", "u+?", " ", "l", "a.",
       "i", " ", "dd", "u+", "o+.", "c", " ", "k", "h", "o^", "n", "g", "?" >>

TRANSPORT_APOLOGY ==
    << "X", "i", "n", " ", "l", "o^~", "i", ",", " ", "t", "o^", "i", " ", "g", "a(.", "p",
       " ", "s", "u+.", " ", "c", "o^'", " ", "k", "h", "i", " ", "t", "i_", "m", " ", "k",
       "i", "e^'", "m", " ", "p", "h", "u+", "o+", "n", "g", " ", "t", "i", "e^.", "n",
       ".", " ", "B", "a.", "n", " ", "c", "o'", " ", "t", "h", "e^?", " ", "t", "h",
       "u+?", " ", "l", "a.", "i", "?" >>

ITINERARY_APOLOGY ==
    << "X", "i", "n", " ", "l", "o^~", "i", ",", " ", "t", "o^", "i", " ", "g", "a(.", "p",
       " ", "s", "u+.", " ", "c", "o^'", " ", "k", "h", "i", " ", "l", "a^.", "p", " ",
       "l", "i.", "c", "h", " ", "t", "r", "i_", "n", "h", ".", " ", "B", "a.", "n", " ",
       "c", "o'", " ", "t", "h", "e^?", " ", "t", "h", "u+?", " ", "l", "a.", "i", "?" >>

BUDGET_APOLOGY ==
    << "X", "i", "n", " ", "l", "o^~", "i", ",", " ", "t", "o^", "i", " ", "g", "a(.", "p",
       " ", "s", "u+.", " ", "c", "o^'", " ", "k", "h", "i", " ", "t", "i'", "n", "h", " ",
       "t", "o", "a'", "n", " ", "n", "g", "a^", "n", " ", "s", "a'", "c", "h", ".", " ",
       "B", "a.", "n", " ", "c", "o'", " ", "t", "h", "e^?", " ", "t", "h", "u+?", " ",
       "l", "a.", "i", "?" >>

CLARIFICATION_MESSAGE ==
    << "T", "o^", "i", " ", "k", "h", "o^", "n", "g", " ", "t", "i_", "m", " ", "t", "h",
       "a^'", "y", " ", "k", "h", "a'", "c", "h", " ", "s", "a.", "n", " ", "p", "h", "u_",
       " ", "h", "o+.", "p", " ", "v", "o+'", "i", " ", "y", "e^", "u", " ", "c", "a^_",
       "u", " ", "c", "u?", "a", " ", "b", "a.", "n", ".", " ", "B", "a.", "n", " ", "c",
       "o'", " ", "t", "h", "e^?", " ", "t", "h", "u+?", ":", "\n", "-", " ", "M", "o+?",
       " ", "r", "o^.", "n", "g", " ", "p", "h", "a.", "m", " ", "v", "i", " ", "g", "i",
       "a'", "\n", "-", " ", "C", "h", "o.", "n", " ", "k", "h", "u", " ", "v", "u+.", "c",
       " ", "k", "h", "a'", "c", "\n", "-", " ", "T", "h", "a", "y", " ", "dd", "o^?", "i",
       " ", "n", "g", "a_", "y", " ", "l", "u+", "u", " ", "t", "r", "u'" >>

-----------------------------------------------------------------------------
(* The system prompts of the responders: get_system_prompt.  A prompt is the
   responder's fixed text around context_info, which is shown here line by
   line: what the line is about and the text the f-string renders for it. *)

\* str(n) for an integer
RECURSIVE IntToStr(_)
IntToStr(n) ==
    IF n < 0 THEN << "-" >> \o IntToStr(0 - n)
    ELSE IF n < 10 THEN << Digits[n + 1] >>
    ELSE IntToStr(n \div 10) \o << Digits[(n % 10) + 1] >>

\* The f-string field {v}: format(v, ""), which is str(v).  The floats of
\* the snapshots are whole numbers.
Str(v) ==
    CASE TypeOf(v) = "NoneType" -> StrVal(<<"N", "o", "n", "e">>)
      [] TypeOf(v) = "int"      -> StrVal(IntToStr(v.value))
      [] TypeOf(v) = "float"    -> StrVal(IntToStr(v.value) \o << ".", "0" >>)
      [] OTHER                  -> v

\* Digits in groups of three, as the "," format option separates them
RECURSIVE GroupThousands(_)
GroupThousands(digits) ==
    IF Len(digits) <= 3 THEN digits
    ELSE GroupThousands(SubSeq(digits, 1, Len(digits) - 3))
         \o << "," >> \o SubSeq(digits, Len(digits) - 2, Len(digits))

\* The f-string field {v:,.0f}: NoneType and str do not take this format.
FormatAmount(v) ==
    CASE TypeOf(v) = "NoneType" -> Raised("TypeError")
      [] TypeOf(v) = "str"      -> Raised("ValueError")
      [] OTHER -> IF v.value < 0
                  THEN StrVal(<< "-" >> \o GroupThousands(IntToStr(0 - v.value)))
                  ELSE StrVal(GroupThousands(IntToStr(v.value)))

IsDigits(s) == \A k \in 1..Len(s) : \E v \in 1..Len(Digits) : Digits[v] = s[k]

IsLeap(y) == y % 4 = 0 /\ (y % 100 # 0 \/ y % 400 = 0)

DaysInMonth(y, m) ==
    IF m = 2 /\ IsLeap(y) THEN 29
    ELSE << 31, 28, 31, 30, 31, 30, 31, 31, 30, 31, 30, 31 >>[m]

RECURSIVE DaysBeforeMonth(_, _)
DaysBeforeMonth(y, m) ==
    IF m = 1 THEN 0 ELSE DaysBeforeMonth(y, m - 1) + DaysInMonth(y, m - 1)

\* date.fromisoformat(s).toordinal() for a date written YYYY-MM-DD;
\* ValueError for any other string.
Ordinal(y, m, d) ==
    IF y >= 1 /\ m \in 1..12 /\ d >= 1 /\ d <= DaysInMonth(y, m)
    THEN IntVal((y - 1) * 365 + ((y - 1) \div 4) - ((y - 1) \div 100)
                + ((y - 1) \div 400) + DaysBeforeMonth(y, m) + d)
    ELSE Raised("ValueError")

IsoOrdinal(s) ==
    IF /\ Len(s) = 10
       /\ s[5] = "-" /\ s[8] = "-"
       /\ IsDigits(SubSeq(s, 1, 4)) /\ IsDigits(SubSeq(s, 6, 7))
       /\ IsDigits(SubSeq(s, 9, 10))
    THEN Ordinal(ParseInt(SubSeq(s, 1, 4)), ParseInt(SubSeq(s, 6, 7)),
                 ParseInt(SubSeq(s, 9, 10)))
    ELSE Raised("ValueError")

\* The date a start_date or end_date value stands for: a str is parsed,
\* anything else is taken as it is.
AsDate(v) == IF TypeOf(v) = "str" THEN IsoOrdinal(v.value) ELSE v

\* (end_date - start_date).days + 1 ; TypeError unless both are dates
DaysBetween(start_date, end_date) ==
    IF IsRaised(start_date) THEN start_date
    ELSE IF IsRaised(end_date) THEN end_date
    ELSE IF TypeOf(start_date) # "int" \/ TypeOf(end_date) # "int"
    THEN Raised("TypeError")
    ELSE IntVal(end_date.value - start_date.value + 1)

TripDays(start, end) == DaysBetween(AsDate(start), AsDate(end))

NOT_DETERMINED == StrVal(<<"C", "h", "u+", "a", " ", "x", "a'", "c", " ", "dd", "i.", "n", "h">>)

NOT_AVAILABLE == StrVal(<<"N", "/", "A">>)

Line(about, text) == [about |-> about, text |-> text]

\* The first exception raised while the lines of context_info are
\* rendered, or the prompt made of them.
FirstRaisedLine(lines) ==
    CHOOSE k \in 1..Len(lines) :
        /\ IsRaised(lines[k].text)
        /\ \A j \in 1..(k - 1) : ~IsRaised(lines[j].text)

Prompt(name, lines) ==
    IF \E k \in 1..Len(lines) : IsRaised(lines[k].text)
    THEN lines[FirstRaisedLine(lines)].text
    ELSE [agent |-> name, context_info |-> lines]

\* AccommodationAgent.get_system_prompt
AccommodationPrompt(context) ==
    LET trip_data == context.trip_data
    IN  IF ~HasTripData(context) THEN Prompt("accommodation", << >>)
        ELSE Prompt("accommodation",
               << Line("destination", Str(DictGet(trip_data, "destination", NOT_DETERMINED))),
                  Line("start_date", Str(DictGet(trip_data, "start_date", NOT_DETERMINED))),
                  Line("end_date", Str(DictGet(trip_data, "end_date", NOT_DETERMINED))),
                  Line("travelers_count", Str(DictGet(trip_data, "travelers_count", IntVal(1)))),
                  Line("budget", Str(DictGet(trip_data, "budget", NOT_DETERMINED))) >>)

north_cities ==
    << <<"h", "a_", " ", "n", "o^.", "i">>,
       <<"h", "a", "n", "o", "i">>,
       <<"h", "a.", " ", "l", "o", "n", "g">>,
       <<"s", "a", "p", "a">>,
       <<"n", "i", "n", "h", " ", "b", "i_", "n", "h">> >>

central_cities ==
    << <<"h", "u", "e^'">>,
       <<"h", "u", "e">>,
       <<"dd", "a_", " ", "n", "a(~", "n", "g">>,
       <<"d", "a", " ", "n", "a", "n", "g">>,
       <<"h", "o^.", "i", " ", "a", "n">>,
       <<"h", "o", "i", " ", "a", "n">>,
       <<"n", "h", "a", " ", "t", "r", "a", "n", "g">> >>

south_cities ==
    << <<"h", "o^_", " ", "c", "h", "i'", " ", "m", "i", "n", "h">>,
       <<"s", "a_", "i", " ", "g", "o_", "n">>,
       <<"s", "a", "i", "g", "o", "n">>,
       <<"c", "a^_", "n", " ", "t", "h", "o+">>,
       <<"p", "h", "u'", " ", "q", "u", "o^'", "c">>,
       <<"dd", "a_", " ", "l", "a.", "t">> >>

\* FoodAgent._get_region: destination.lower() needs a str
GetRegion(destination) ==
    IF TypeOf(destination) # "str" THEN Raised("AttributeError")
    ELSE LET destination_lower == LowerStr(destination.value)
         IN  IF AnyKeyword(north_cities, destination_lower) THEN StrVal(<<"n", "o", "r", "t", "h">>)
             ELSE IF AnyKeyword(central_cities, destination_lower) THEN StrVal(<<"c", "e", "n", "t", "r", "a", "l">>)
             ELSE IF AnyKeyword(south_cities, destination_lower) THEN StrVal(<<"s", "o", "u", "t", "h">>)
             ELSE None

\* FoodAgent.get_system_prompt; the specialties line names the region whose
\* first five specialties it lists.
FoodLines(destination, region, travelers_count) ==
    LET lines == << Line("destination", Str(destination)),
                    Line("region", Str(region)),
                    Line("travelers_count", Str(travelers_count)) >>
    IN  IF IsRaised(region) THEN region
        ELSE IF region # None
        THEN Prompt("food", Append(lines, Line("specialties", region)))
        ELSE Prompt("food", lines)

FoodRegionLines(destination, travelers_count) ==
    FoodLines(destination, GetRegion(destination), travelers_count)

FoodPrompt(context) ==
    IF ~HasTripData(context) THEN Prompt("food", << >>)
    ELSE FoodRegionLines(DictGet(context.trip_data, "destination", StrVal(<< >>)),
                         DictGet(context.trip_data, "travelers_count", IntVal(1)))

\* TransportAgent.get_system_prompt
TransportPrompt(context) ==
    LET trip_data == context.trip_data
    IN  IF ~HasTripData(context) THEN Prompt("transport", << >>)
        ELSE Prompt("transport",
               << Line("destination", Str(DictGet(trip_data, "destination", NOT_DETERMINED))),
                  Line("start_date", Str(DictGet(trip_data, "start_date", NOT_DETERMINED))),
                  Line("end_date", Str(DictGet(trip_data, "end_date", NOT_DETERMINED))),
                  Line("travelers_count", Str(DictGet(trip_data, "travelers_count", IntVal(1)))) >>)

\* ItineraryAgent.get_system_prompt: the day count is N/A unless both dates
\* are given and the count can be computed.
ItineraryDays(start, end, days) ==
    IF TruthyValue(start) /\ TruthyValue(end)
    THEN IF IsRaised(days) THEN NOT_AVAILABLE ELSE days
    ELSE NOT_AVAILABLE

ItineraryLines(trip_data, start, end) ==
    << Line("destination", Str(DictGet(trip_data, "destination", NOT_DETERMINED))),
       Line("start_date", Str(start)),
       Line("end_date", Str(end)),
       Line("days", Str(ItineraryDays(start, end, TripDays(start, end)))),
       Line("travelers_count", Str(DictGet(trip_data, "travelers_count", IntVal(1)))),
       Line("budget", Str(DictGet(trip_data, "budget", NOT_DETERMINED))) >>

ItineraryPrompt(context) ==
    IF ~HasTripData(context) THEN Prompt("itinerary", << >>)
    ELSE Prompt("itinerary",
                ItineraryLines(context.trip_data,
                               DictGet(context.trip_data, "start_date", StrVal(<< >>)),
                               DictGet(context.trip_data, "end_date", StrVal(<< >>))))

\* BudgetAgent._calculate_days: 1 when the count cannot be computed
DaysOrOne(days) == IF IsRaised(days) THEN IntVal(1) ELSE days

CalculateDays(trip_data) ==
    DaysOrOne(TripDays(DictGet(trip_data, "start_date", StrVal(<< >>)),
                       DictGet(trip_data, "end_date", StrVal(<< >>))))

\* BudgetAgent.get_system_prompt
BudgetPrompt(context) ==
    LET trip_data == context.trip_data
    IN  IF ~HasTripData(context) THEN Prompt("budget", << >>)
        ELSE Prompt("budget",
               << Line("destination", Str(DictGet(trip_data, "destination", NOT_DETERMINED))),
                  Line("days", Str(CalculateDays(trip_data))),
                  Line("travelers_count", Str(DictGet(trip_data, "travelers_count", IntVal(1)))),
                  Line("budget", FormatAmount(DictGet(trip_data, "budget", IntVal(0)))) >>)

\* <Responder>.get_system_prompt
GetSystemPrompt(name, context) ==
    CASE name = "accommodation" -> AccommodationPrompt(context)
      [] name = "food"          -> FoodPrompt(context)
      [] name = "transport"     -> TransportPrompt(context)
      [] name = "itinerary"     -> ItineraryPrompt(context)
      [] name = "budget"        -> BudgetPrompt(context)
\* ai_response.content of a provider call that succeeded
AI_CONTENT == << "O", "K", "." >>

Data(key) == [key |-> key]

\* The except branch of each responder's process.
CannedApology(name) ==
    CASE name = "accommodation" ->
           AgentResponse(ACCOMMODATION_APOLOGY, name, None,
               << "Thu tim kiem lai", "Thay doi dieu kien tim kiem" >>, FALSE)
      [] name = "food" ->
           AgentResponse(FOOD_APOLOGY, name, None,
               << "Thu tim kiem lai", "Hoi ve mon an dac san" >>, FALSE)
      [] name = "transport" ->
           AgentResponse(TRANSPORT_APOLOGY, name, None,
               << "Tim chuyen bay", "Xe khach lien tinh", "Di chuyen noi thanh" >>, FALSE)
      [] name = "itinerary" ->
           AgentResponse(ITINERARY_APOLOGY, name, None,
               << "Tao lich trinh moi", "Tim diem tham quan" >>, FALSE)
      [] name = "budget" ->
           AgentResponse(BUDGET_APOLOGY, name, None,
               << "Uoc tinh chi phi", "Phan bo ngan sach" >>, FALSE)

\* What a responder does when nothing raises: the steps it runs and the reply
\* it builds.  search is what the search integration returns when called.
Plan(steps, response) == [steps |-> steps, reply |-> response]

AccommodationPlan(context, search) ==
    LET name == "accommodation"
        found == ExtractLocations(context.message)
    IN  IF CanPerformSearch(context, found)
        THEN IF search = "found"
             THEN Plan({"extract_entities", "search", "call_ai"},
                      AgentResponse(AI_CONTENT, name, Data("accommodations"),
                          << "Xem chi tiet khach san nay", "Tim khach san khac",
                             "Dat phong ngay" >>, FALSE))
             ELSE Plan({"extract_entities", "search"},
                      AgentResponse(CLARIFICATION_MESSAGE, name, None,
                          << "Tang ngan sach", "Tim o khu vuc khac", "Doi ngay" >>,
                          FALSE))
        ELSE Plan({"extract_entities", "call_ai"},
                 AgentResponse(AI_CONTENT, name, None,
                     << "Toi muon o khach san 4 sao", "Ngan sach khoang 1 trieu/dem",
                        "Can gan trung tam" >>, TRUE))

FoodGeneral(steps) ==
    Plan(steps \cup {"call_ai"},
        AgentResponse(AI_CONTENT, "food", None,
            << "Tim nha hang gan day", "Goi y mon dac san", "Quan an binh dan" >>,
            FALSE))

FoodPlan(context, search) ==
    LET name == "food"
        found == ExtractLocations(context.message)
        intent == FoodIntent(context.message)
        location == SearchLocation(context, found)
        base == {"extract_entities", "determine_intent"}
    IN  IF intent = "search_restaurant"
        THEN IF Len(location) > 0
             THEN IF search = "found"
                  THEN Plan(base \cup {"search", "call_ai"},
                           AgentResponse(AI_CONTENT, name, Data("restaurants"),
                               << "Xem them nha hang", "Tim mon dac san",
                                  "Quan an duong pho" >>, FALSE))
                  ELSE FoodGeneral(base \cup {"search"})
             ELSE FoodGeneral(base)
        ELSE IF intent = "recommend_dish"
        THEN Plan(base \cup {"call_ai"},
                 AgentResponse(AI_CONTENT, name, None,
                     << "Tim nha hang phuc vu mon nay", "Mon an khac",
                        "Quan an duong pho" >>, FALSE))
        ELSE FoodGeneral(base)

TransportPlan(context, search) ==
    LET name == "transport"
        intent == TransportIntent(context.message)
        steps == {"extract_entities", "determine_intent", "call_ai"}
    IN  IF intent = "inter_city"
        THEN Plan(steps,
                 AgentResponse(AI_CONTENT, name, Data("transport_options"),
                     << "So sanh gia ve", "Dat ve may bay", "Tim xe khach" >>, FALSE))
        ELSE IF intent = "local"
        THEN Plan(steps,
                 AgentResponse(AI_CONTENT, name, Data("local_transport"),
                     << "Thue xe may", "Gia Grab", "Taxi san bay" >>, FALSE))
        ELSE Plan(steps,
                 AgentResponse(AI_CONTENT, name, None,
                     << "Di chuyen lien tinh", "Phuong tien noi thanh", "Thue xe" >>,
                     FALSE))

ItineraryGeneral(steps) ==
    Plan(steps \cup {"call_ai"},
        AgentResponse(AI_CONTENT, "itinerary", None,
            << "Tao lich trinh", "Tim diem tham quan", "Goi y hoat dong" >>, FALSE))

ItineraryPlan(context, search) ==
    LET name == "itinerary"
        found == ExtractLocations(context.message)
        intent == ItineraryIntent(context.message)
        destination == SearchLocation(context, found)
        base == {"extract_entities", "determine_intent"}
        searched == IF Len(destination) > 0 THEN {"search"} ELSE {}
        attractions == Len(destination) > 0 /\ search = "found"
    IN  IF intent = "create_itinerary"
        THEN Plan(base \cup searched \cup {"call_ai"},
                 AgentResponse(AI_CONTENT, name,
                     IF attractions THEN Data("activities") ELSE None,
                     << "Them hoat dong", "Dieu chinh thoi gian", "Xem ban do" >>,
                     FALSE))
        ELSE IF intent = "modify_itinerary"
        THEN Plan(base \cup {"call_ai"},
                 AgentResponse(AI_CONTENT, name, None,
                     << "Xem lich trinh moi", "Thay doi tiep", "Hoan tat" >>, FALSE))
        ELSE IF intent = "find_attractions"
        THEN IF attractions
             THEN Plan(base \cup searched \cup {"call_ai"},
                      AgentResponse(AI_CONTENT, name, Data("attractions"),
                          << "Them vao lich trinh", "Tim them", "Tao lich trinh" >>,
                          FALSE))
             ELSE ItineraryGeneral(base \cup searched)
        ELSE ItineraryGeneral(base)

BudgetPlan(context, search) ==
    LET name == "budget"
        intent == BudgetIntent(context.message)
        steps == {"extract_entities", "determine_intent", "call_ai"}
    IN  IF intent = "estimate"
        THEN Plan(steps,
                 AgentResponse(AI_CONTENT, name, Data("budget_estimate"),
                     << "Chi tiet tung hang muc", "Cach tiet kiem",
                        "Phan bo ngan sach" >>, FALSE))
        ELSE IF intent = "optimize"
        THEN Plan(steps,
                 AgentResponse(AI_CONTENT, name, None,
                     << "Ap dung goi y", "Xem chi phi moi", "Tim deal khach san" >>,
                     FALSE))
        ELSE IF intent = "breakdown"
        THEN Plan(steps,
                 AgentResponse(AI_CONTENT, name, Data("budget_breakdown"),
                     << "Dieu chinh ty le", "Xem chi tiet", "Uoc tinh thuc te" >>,
                     FALSE))
        ELSE Plan(steps,
                 AgentResponse(AI_CONTENT, name, None,
                     << "Uoc tinh chi phi", "Phan bo ngan sach", "Meo tiet kiem" >>,
                     FALSE))

AgentPlan(name, context, search) ==
    CASE name = "accommodation" -> AccommodationPlan(context, search)
      [] name = "food"          -> FoodPlan(context, search)
      [] name = "transport"     -> TransportPlan(context, search)
      [] name = "itinerary"     -> ItineraryPlan(context, search)
      [] name = "budget"        -> BudgetPlan(context, search)

\* What the service behind a search integration does with a request: it
\* answers with results, answers with none, or fails (an exception, a status
\* other than 200 or OK, a missing API key, an unknown destination).
UpstreamOutcomes == {"results", "empty", "failed"}

\* BookingAPIClient.search_hotels: what it returns, "found" for a non-empty
\* list.  On every failure it returns _get_mock_hotels(...), three hotels.
SearchHotels(upstream) ==
    CASE upstream = "results" -> "found"
      [] upstream = "empty"   -> "empty"
      [] upstream = "failed"  -> "found"

\* GoogleMapsClient.search_places, which search_restaurants and
\* search_attractions call.  On every failure it returns
\* _get_mock_places(...), three places.
SearchPlaces(upstream) ==
    CASE upstream = "results" -> "found"
      [] upstream = "empty"   -> "empty"
      [] upstream = "failed"  -> "found"

\* The integration each responder searches with.
SearchIntegration(name, upstream) ==
    IF name = "accommodation" THEN SearchHotels(upstream) ELSE SearchPlaces(upstream)

\* The steps of a responder's process at which an exception can be injected.
Steps == {"extract_entities", "determine_intent", "search", "get_system_prompt", "call_ai"}

\* The steps of a run: every call_ai comes right after
\*     system_prompt = self.get_system_prompt(context)
StepsWithPrompt(steps) ==
    IF "call_ai" \in steps THEN steps \cup {"get_system_prompt"} ELSE steps

\* The step that raises first: a fault before the prompt is built, else the
\* prompt builder raising by itself, else the fault in the provider call.
FirstRaise(steps, prompt_raises, fault) ==
    IF fault \in steps \ {"call_ai"} THEN fault
    ELSE IF "call_ai" \in steps /\ prompt_raises THEN "get_system_prompt"
    ELSE fault

RunOutcome(steps, first, answer) ==
    [ fault           |-> IF first \in steps THEN first ELSE "none",
      called_search   |-> /\ "search" \in steps
                          /\ first \notin steps \ {"get_system_prompt", "call_ai"},
      called_provider |-> /\ "call_ai" \in steps
                          /\ first \notin steps \ {"call_ai"},
      reply           |-> answer ]

RunOfSteps(steps, answer, prompt_raises, fault) ==
    RunOutcome(steps, FirstRaise(steps, prompt_raises, fault), answer)

RunOfPlan(plan, prompt_raises, fault) ==
    RunOfSteps(StepsWithPrompt(plan.steps), plan.reply, prompt_raises, fault)

\* One run of the body of <Responder>.process with an exception injected at
\* a step (or at none): the step that raises first, whether the search
\* integration and the provider were called, and the reply of a run that
\* gets to its end.  Every call_ai comes right after
\*     system_prompt = self.get_system_prompt(context)
\* which raises by itself for some snapshots.
Run(name, context, search, fault) ==
    RunOfPlan(AgentPlan(name, context, search),
              IsRaised(GetSystemPrompt(name, context)), fault)

\* call_ai as it would be if it called the provider again after a failure
ProviderCallsRetried(run) ==
    IF run.called_provider THEN (IF run.fault = "call_ai" THEN 2 ELSE 1) ELSE 0

\* The calls of ai_provider.generate a run makes: call_ai awaits generate
\* once and re-raises what it raises.
ProviderCalls(run) == IF run.called_provider THEN 1 ELSE 0

\* <Responder>.process without its  try ... except
AgentProcessUncaught(name, context, search, fault) ==
    LET run == Run(name, context, search, fault)
    IN  IF run.fault # "none" THEN Raised("Exception") ELSE run.reply

\* <Responder>.process: the body runs inside  try ... except Exception , whose
\* handler returns the canned apology.
AgentProcess(name, context, search, fault) ==
    LET run == Run(name, context, search, fault)
    IN  IF run.fault # "none" THEN CannedApology(name) ELSE run.reply
-----------------------------------------------------------------------------
(* MasterOrchestrator: the workflow  classify -> route_to_agent | handle_general
   -> process_response -> END , and process, which runs it *)

\* _classify_intent: the state it returns.
ClassifyState(state) ==
    [state EXCEPT !.selected_agent = ClassifyIntent(state.message)]

\* Workflow node: classify.
Classify ==
    /\ pc = "classify"
    /\ st' = ClassifyState(st)
    /\ trace' = Append(trace, "classify")
    /\ pc' = IF ShouldUseAgent(st'.selected_agent) = "agent"
             THEN "route_to_agent"
             ELSE "handle_general"
    /\ UNCHANGED << store, caller, failure, agentReply, agentCalls, agentFault, searchCall, agentContext, llmRequest, inv, fnInput, fnOutput,
                    llmCalls, reply, events, chunkAt, http, db >>


\* The strings pydantic's lax mode converts to an int.
NumericStrings == {"1", "2"}

IntParsable(v) == v.type = "int" \/ (v.type = "str" /\ v.value \in NumericStrings)

\* Whether AgentContext(...) validates the arguments _route_to_agent hands it:
\* user_id: int, trip_id: Optional[int], conversation_history: list[dict] (it is
\* given a list of AIMessage objects, which are not dicts).
AgentContextValid(state) ==
    /\ IntParsable(state.user_id)
    /\ state.trip_id = None \/ IntParsable(state.trip_id)
    /\ Len(state.conversation_history) = 0

\* The dict _route_to_agent stores in state.response.
ResponseDict(response) ==
    [ message     |-> response.message,
      agent_type  |-> response.agent_type,
      data        |-> response.data,
      suggestions |-> response.suggestions,
      actions     |-> response.actions ]

\* pydantic's conversion of a validated id to the int AgentContext declares
ToInt(v) == IF v = None THEN None ELSE IntVal(v.value)

\* _route_to_agent: the state it returns, given what the search upstream
\* does and the step of the responder that raises (if any).  Whatever is
\* raised inside the try is recorded in state.error.
RouteToAgentState(state, upstream, fault) ==
    IF state.selected_agent \notin Domains
    THEN [state EXCEPT !.error = "Agent not found"]
    ELSE IF ~AgentContextValid(state)
    THEN [state EXCEPT !.error = "ValidationError"]
    ELSE LET name == state.selected_agent
             context == AgentContext(ToInt(state.user_id), ToInt(state.trip_id),
                                     state.message, state.conversation_history,
                                     state.trip_data)
             response == AgentProcess(name, context,
                                      SearchIntegration(name, upstream), fault)
         IN  IF IsRaised(response)
             THEN [state EXCEPT !.error = response.error]
             ELSE IF HasAttr(response, "actions")
             THEN [state EXCEPT !.response = ResponseDict(response)]
             ELSE [state EXCEPT !.error = "AttributeError"]

\* Workflow node: route_to_agent.  Everything is inside the handler's try.
RouteToAgent ==
    /\ pc = "route_to_agent"
    /\ trace' = Append(trace, "route_to_agent")
    /\ pc' = "process_response"
    /\ IF st.selected_agent \notin Domains
       THEN /\ st' = RouteToAgentState(st, "results", "none")
            /\ UNCHANGED << agentReply, agentCalls, agentFault, searchCall,
                            agentContext, llmRequest, llmCalls >>
       ELSE IF ~AgentContextValid(st)
       THEN /\ st' = RouteToAgentState(st, "results", "none")
            /\ UNCHANGED << agentReply, agentCalls, agentFault, searchCall,
                            agentContext, llmRequest, llmCalls >>
       ELSE \E upstream \in UpstreamOutcomes, fault \in Steps \cup {"none"} :
            LET name == st.selected_agent
                context == AgentContext(ToInt(st.user_id), ToInt(st.trip_id),
                                        st.message, st.conversation_history,
                                        st.trip_data)
                search == SearchIntegration(name, upstream)
                response == AgentProcess(name, context, search, fault)
                run == Run(name, context, search, fault)
            IN  /\ agentContext' = context
                /\ agentReply' = response
                /\ agentCalls' = agentCalls + 1
                /\ agentFault' = run.fault
                /\ searchCall' = IF run.called_search
                                 THEN [upstream |-> upstream, results |-> search]
                                 ELSE None
                /\ llmCalls' = llmCalls + ProviderCalls(run)
                /\ llmRequest' = IF run.called_provider
                                 THEN [method |-> "generate", system_prompt |-> name]
                                 ELSE llmRequest
                /\ st' = RouteToAgentState(st, upstream, fault)
    /\ UNCHANGED << store, caller, failure, reply, events, chunkAt, http, db, inv, fnInput, fnOutput >>

\* The methods BaseAIProvider declares; _handle_general calls provider.chat.
ProviderMethods == {"generate", "generate_stream", "generate_structured", "health_check"}

GENERAL_SUGGESTIONS == << "Tim khach san", "Goi y mon an", "Lap lich trinh", "Tinh ngan sach" >>

\* The messages _handle_general sends: the history, then the user message.
GeneralMessages(state) ==
    Append(state.conversation_history, [role |-> "user", content |-> state.message])

\* _handle_general: the state it returns, given how the provider call
\* ends.  provider.chat is looked up inside the try.
HandleGeneralState(state, outcome) ==
    IF "chat" \notin ProviderMethods
    THEN [state EXCEPT !.error = "AttributeError"]
    ELSE IF outcome = "ok"
    THEN [state EXCEPT !.response =
            [ message     |-> AI_CONTENT,
              agent_type  |-> "general",
              suggestions |-> GENERAL_SUGGESTIONS ]]
    ELSE [state EXCEPT !.error = outcome]

\* Workflow node: handle_general.
HandleGeneral ==
    /\ pc = "handle_general"
    /\ trace' = Append(trace, "handle_general")
    /\ pc' = "process_response"
    /\ IF "chat" \in ProviderMethods
       THEN \E outcome \in {"ok", "ProviderError"} :
              /\ llmCalls' = llmCalls + 1
              /\ llmRequest' = [ method        |-> "chat",
                                 system_prompt |-> "general",
                                 messages      |-> GeneralMessages(st) ]
              /\ st' = HandleGeneralState(st, outcome)
       ELSE /\ st' = HandleGeneralState(st, "ok")
            /\ UNCHANGED << llmCalls, llmRequest >>
    /\ UNCHANGED << store, caller, failure, agentReply, agentCalls, agentFault,
                    searchCall, agentContext, inv, fnInput, fnOutput, reply, events, chunkAt, http, db >>

\* _process_response without the substitution of the canned error reply
ProcessResponseKeep(state) == state

\* _process_response: the state it returns.
ProcessResponseState(state) ==
    IF Truthy(state.error) /\ state.response = None
    THEN [state EXCEPT !.response =
            [ message     |-> ROUTING_ERROR_MESSAGE,
              agent_type  |-> "error",
              suggestions |-> << "Thu lai", "Hoi cau khac" >> ]]
    ELSE state

\* Workflow node: process_response, the last before END.
ProcessResponse ==
    /\ pc = "process_response"
    /\ trace' = Append(trace, "process_response")
    /\ st' = ProcessResponseState(st)
    /\ pc' = "end"
    /\ UNCHANGED << store, caller, failure, agentReply, agentCalls, agentFault, searchCall, agentContext, llmRequest, inv, fnInput, fnOutput,
                    llmCalls, reply, events, chunkAt, http, db >>

\* dict.get(key, default)
Get(d, key, default) == IF key \in DOMAIN d THEN d[key] ELSE default

\* The AgentResponse process builds from final_state.get("response", {}).
FromResponseData(response_data) ==
    AgentResponse(Get(response_data, "message", << >>),
                  Get(response_data, "agent_type", "unknown"),
                  Get(response_data, "data", None),
                  Get(response_data, "suggestions", << >>),
                  FALSE)

\* The except branch of process.
OrchestratorError ==
    AgentResponse(ORCHESTRATOR_ERROR_MESSAGE, "error", None, << "Thu lai" >>, FALSE)

\* What process can return for a final state.  A response that is still None
\* is either absent from the workflow's output (the default {} is used) or
\* present as None (None.get raises inside the try).
ProcessResults(state) ==
    IF state.response # None
    THEN { FromResponseData(state.response) }
    ELSE { FromResponseData(<< >>), OrchestratorError }

\* process, after the workflow has run.
ProcessReturn ==
    /\ pc = "end"
    /\ \E result \in ProcessResults(st) : reply' = result
    /\ pc' = "returned"
    /\ UNCHANGED << store, caller, failure, st, trace, agentReply, agentCalls,
                    agentFault, searchCall, agentContext, llmRequest, inv, fnInput, fnOutput, llmCalls, events, chunkAt, http, db >>

\* Whether OrchestratorState(...) validates the arguments process hands it:
\* user_id: str, trip_id: Optional[str].  process builds it before its try.
StateValid(user_id, trip_id) ==
    /\ user_id.type = "str"
    /\ trip_id = None \/ trip_id.type = "str"
-----------------------------------------------------------------------------
(* BaseAgent.extract_entities: the regular expressions, matched as re.findall
   matches them: leftmost first, then on from the end of the match.  All of
   them are matched with re.IGNORECASE. *)

DigitChars == {Digits[k] : k \in 1..Len(Digits)}

\* The character at position i, lower-cased; "" past the end of the text.
At(s, i) == IF i \in 1..Len(s) THEN Lower(s[i]) ELSE ""

\* \d{n} at position i
DigitsAt(s, i, n) == \A k \in 0..(n - 1) : At(s, i + k) \in DigitChars

\* The length of \d* at position i
RECURSIVE DigitRun(_, _)
DigitRun(s, i) == IF At(s, i) \in DigitChars THEN 1 + DigitRun(s, i + 1) ELSE 0

\* The length of \s* at position i
RECURSIVE SpaceRun(_, _)
SpaceRun(s, i) == IF At(s, i) = " " THEN 1 + SpaceRun(s, i + 1) ELSE 0

WordAt(s, i, w) == \A k \in 1..Len(w) : At(s, i + k - 1) = w[k]

\* (?:w1|w2|...) at position i: the length of the first alternative that
\* matches, 0 when none does.
RECURSIVE AltLen(_, _, _, _)
AltLen(s, i, alts, k) ==
    IF k > Len(alts) THEN 0
    ELSE IF WordAt(s, i, alts[k]) THEN Len(alts[k])
    ELSE AltLen(s, i, alts, k + 1)

\* \d{1,2}/\d{1,2}/\d{4} : the last position of the match at i, 0 for none
SlashDateEnd(s, i) ==
    LET fits(a, b) == /\ DigitsAt(s, i, a)
                      /\ At(s, i + a) = "/"
                      /\ DigitsAt(s, i + a + 1, b)
                      /\ At(s, i + a + b + 1) = "/"
                      /\ DigitsAt(s, i + a + b + 2, 4)
        ab == {p \in {2, 1} \X {2, 1} : fits(p[1], p[2])}
    IN  IF ab = {} THEN 0
        ELSE LET p == CHOOSE q \in ab : TRUE IN i + p[1] + p[2] + 5

\* \d{4}-\d{2}-\d{2}
IsoDateEnd(s, i) ==
    IF /\ DigitsAt(s, i, 4)
       /\ At(s, i + 4) = "-"
       /\ DigitsAt(s, i + 5, 2)
       /\ At(s, i + 7) = "-"
       /\ DigitsAt(s, i + 8, 2)
    THEN i + 9 ELSE 0

month_words ==
    << <<"t", "h", "a'", "n", "g">>,
       <<"t", "h", "g">> >>

\* \d{1,2}\s+(?:tháng|thg)\s*\d{1,2}
MonthDateEnd(s, i) ==
    LET a == IF DigitRun(s, i) > 2 THEN 2 ELSE DigitRun(s, i)
        sp == SpaceRun(s, i + a)
        w == AltLen(s, i + a + sp, month_words, 1)
        j == i + a + sp + w
        sp2 == SpaceRun(s, j)
        b == IF DigitRun(s, j + sp2) > 2 THEN 2 ELSE DigitRun(s, j + sp2)
    IN  IF a > 0 /\ sp > 0 /\ w > 0 /\ b > 0 THEN j + sp2 + b - 1 ELSE 0

money_units ==
    << <<"t", "r", "i", "e^.", "u">>,
       <<"t", "r">>,
       <<"v", "n", "d">>,
       <<"dd", "o^_", "n", "g">>,
       <<"k">>,
       <<"n", "g", "h", "i_", "n">>,
       <<"n", "g", "a_", "n">> >>

\* The end of (\d+(?:\.\d+)?) at position i, 0 when there is no digit
NumberEnd(s, i) ==
    LET n == DigitRun(s, i)
        j == i + n
        d == IF At(s, j) = "." THEN DigitRun(s, j + 1) ELSE 0
    IN  IF n = 0 THEN 0 ELSE IF d > 0 THEN j + d ELSE j - 1

\* (\d+(?:\.\d+)?)\s*(?:triệu|tr|VND|đồng|k|nghìn|ngàn)
MoneyEnd(s, i) ==
    LET e == NumberEnd(s, i)
        sp == SpaceRun(s, e + 1)
        u == AltLen(s, e + 1 + sp, money_units, 1)
    IN  IF e > 0 /\ u > 0 THEN e + sp + u ELSE 0

people_words ==
    << <<"n", "g", "u+", "o+_", "i">>,
       <<"n", "g">>,
       <<"k", "h", "a'", "c", "h">>,
       <<"t", "r", "a", "v", "e", "l", "e", "r">> >>

\* (\d+)\s*(?:người|ng|khách|traveler)
PeopleEnd(s, i) ==
    LET n == DigitRun(s, i)
        sp == SpaceRun(s, i + n)
        w == AltLen(s, i + n + sp, people_words, 1)
    IN  IF n > 0 /\ w > 0 THEN i + n + sp + w - 1 ELSE 0

\* The last position of the match of a pattern at position i
MatchEnd(pattern, s, i) ==
    CASE pattern = "slash_date" -> SlashDateEnd(s, i)
      [] pattern = "iso_date"   -> IsoDateEnd(s, i)
      [] pattern = "month_date" -> MonthDateEnd(s, i)
      [] pattern = "money"      -> MoneyEnd(s, i)
      [] pattern = "people"     -> PeopleEnd(s, i)

\* What findall lists for a match: the group when the pattern has one, the
\* whole match otherwise.
MatchValue(pattern, s, i, e) ==
    CASE pattern = "money"  -> SubSeq(s, i, NumberEnd(s, i))
      [] pattern = "people" -> SubSeq(s, i, i + DigitRun(s, i) - 1)
      [] OTHER              -> SubSeq(s, i, e)

\* re.findall(pattern, text, re.IGNORECASE), from position i on
RECURSIVE FindAll(_, _, _)
FindAll(pattern, s, i) ==
    IF i > Len(s) THEN << >>
    ELSE LET e == MatchEnd(pattern, s, i)
         IN  IF e > 0
             THEN << MatchValue(pattern, s, i, e) >> \o FindAll(pattern, s, e + 1)
             ELSE FindAll(pattern, s, i + 1)

date_patterns == << "slash_date", "iso_date", "month_date" >>

\* for pattern in date_patterns: ... if matches: entities["dates"] = matches
RECURSIVE DatesLoop(_, _, _)
DatesLoop(text, k, dates) ==
    IF k > Len(date_patterns) THEN dates
    ELSE LET matches == FindAll(date_patterns[k], text, 1)
         IN  DatesLoop(text, k + 1, IF Len(matches) > 0 THEN matches ELSE dates)

\* extract_entities.  A key the code leaves out of the dict is shown with
\* the empty list (dates, amounts, locations) or None (travelers).
ExtractEntities(text) ==
    LET people_matches == FindAll("people", text, 1)
    IN  [ dates     |-> DatesLoop(text, 1, << >>),
          amounts   |-> FindAll("money", text, 1),
          locations |-> ExtractLocations(text),
          travelers |-> IF Len(people_matches) > 0
                        THEN IntVal(ParseInt(people_matches[1])) ELSE None ]
-----------------------------------------------------------------------------
(* generate_structured of the two backends.  A completion is a sequence of
   lexemes: an opening or closing fence of three backquotes ("FENCE"), a
   fence with its language tag ("FENCE_JSON"), a line break ("NL"), a JSON
   document ("OBJ") and text that is not JSON ("TEXT"). *)

Lexemes == {"FENCE", "FENCE_JSON", "NL", "OBJ", "TEXT"}

Backends == {"gemini", "openai"}

\* What self.generate hands back: a completion, or the exception of the
\* upstream call.
Completion(content) == [tag |-> "completion", content |-> content]

\* str.strip(): the line breaks at both ends go
RECURSIVE Strip(_)
Strip(s) ==
    IF Len(s) > 0 /\ Head(s) = "NL" THEN Strip(Tail(s))
    ELSE IF Len(s) > 0 /\ s[Len(s)] = "NL" THEN Strip(SubSeq(s, 1, Len(s) - 1))
    ELSE s

\* content.startswith of three backquotes
StartsWithFence(s) == Len(s) > 0 /\ Head(s) \in {"FENCE", "FENCE_JSON"}

\* content.split("\n")
RECURSIVE SplitLines(_)
SplitLines(s) ==
    IF \A k \in 1..Len(s) : s[k] # "NL" THEN << s >>
    ELSE LET i == CHOOSE k \in 1..Len(s) :
                      s[k] = "NL" /\ \A j \in 1..(k - 1) : s[j] # "NL"
         IN  << SubSeq(s, 1, i - 1) >> \o SplitLines(SubSeq(s, i + 1, Len(s)))

\* "\n".join(lines)
RECURSIVE JoinLines(_)
JoinLines(lines) ==
    IF Len(lines) = 0 THEN << >>
    ELSE IF Len(lines) = 1 THEN lines[1]
    ELSE lines[1] \o << "NL" >> \o JoinLines(Tail(lines))

\* lines[1:-1]
Inner(lines) == SubSeq(lines, 2, Len(lines) - 1)

\* json.loads: one JSON document, with white space around it allowed
JsonLoads(s) ==
    IF Strip(s) = << "OBJ" >> THEN [tag |-> "parsed", value |-> "OBJ"]
    ELSE Raised("JSONDecodeError")

\* except json.JSONDecodeError: raise ValueError(...) ; except Exception: raise
Reraise(result) ==
    IF IsRaised(result) /\ result.error = "JSONDecodeError"
    THEN Raised("ValueError")
    ELSE result

\* GeminiProvider.generate_structured
GeminiGenerateStructured(response) ==
    IF IsRaised(response) THEN Reraise(response)
    ELSE LET content == Strip(response.content)
         IN  IF StartsWithFence(content)
             THEN Reraise(JsonLoads(JoinLines(Inner(SplitLines(content)))))
             ELSE Reraise(JsonLoads(content))

\* OpenAIProvider.generate_structured
OpenAIGenerateStructured(response) ==
    IF IsRaised(response) THEN Reraise(response)
    ELSE Reraise(JsonLoads(response.content))

GenerateStructured(backend, response) ==
    IF backend = "gemini" THEN GeminiGenerateStructured(response)
    ELSE OpenAIGenerateStructured(response)
-----------------------------------------------------------------------------
(* The conversations API: message storage, chat and chat/stream *)

\* "Tim khach san o Ha Noi", with its diacritics (accommodation)
Msg1 == <<"T", "i_", "m", " ", "k", "h", "a'", "c", "h", " ", "s", "a.", "n", " ", "o+?", " ", "H", "a_", " ", "N", "o^.", "i">>

\* "Xin chao" (no keyword)
Msg2 == <<"X", "i", "n", " ", "c", "h", "a", "o">>

\* "Uoc tinh chi phi", with its diacritics (budget)
Msg3 == <<"U+", "o+'", "c", " ", "t", "i'", "n", "h", " ", "c", "h", "i", " ", "p", "h", "i'">>

\* "Tim chuyen bay di Da Nang", with its diacritics (transport)
Msg4 == <<"T", "i_", "m", " ", "c", "h", "u", "y", "e^'", "n", " ", "b", "a", "y", " ", "dd", "i", " ", "DD", "a_", " ", "N", "a(~", "n", "g">>

\* "Goi y nha hang", with its diacritics (food)
Msg5 == <<"G", "o+.", "i", " ", "y'", " ", "n", "h", "a_", " ", "h", "a_", "n", "g">>

\* "Lap lich trinh 3 ngay", with its diacritics (itinerary)
Msg6 == <<"L", "a^.", "p", " ", "l", "i.", "c", "h", " ", "t", "r", "i_", "n", "h", " ", "3", " ", "n", "g", "a_", "y">>

ChatMessages == {Msg1, Msg2, Msg3, Msg4, Msg5, Msg6}

\* The trip snapshot chat builds for a conversation linked to a trip whose
\* budget is 0:  float(trip.budget) if trip.budget else None
TripHanoi ==
    [ destination     |-> StrVal(<<"H", "a_", " ", "N", "o^.", "i">>),
      start_date      |-> StrVal(<<"2", "0", "2", "5", "-", "0", "1", "-", "1", "0">>),
      end_date        |-> StrVal(<<"2", "0", "2", "5", "-", "0", "1", "-", "1", "2">>),
      travelers_count |-> IntVal(2),
      budget          |-> None ]

TripSnapshots == {None, TripHanoi}

Min(a, b) == IF a < b THEN a ELSE b

\* conversation_service.add_message: the rows of the conversation afterwards.
\* Rows are kept in created_at order.
AddMessage(rows, role, content, agent_type) ==
    Append(rows, [ id         |-> Len(rows) + 1,
                   role       |-> role,
                   content    |-> content,
                   agent_type |-> agent_type ])

\* conversation_service.get_conversation_messages:
\* order_by(created_at).offset(offset).limit(limit)
GetConversationMessages(rows, limit, offset) ==
    SubSeq(rows, offset + 1, Min(Len(rows), offset + limit))

\* limit=20 in chat and chat_stream
HISTORY_LIMIT == 20

\* [{"role": msg.role, "content": msg.content} for msg in messages[:-1]]
ConversationHistory(messages) ==
    [i \in 1..(IF Len(messages) = 0 THEN 0 ELSE Len(messages) - 1) |->
        [role |-> messages[i].role, content |-> messages[i].content]]

\* POST /{conversation_id}/messages
AddMessageRequest(content) ==
    /\ pc = "idle"
    /\ store' = AddMessage(store, "user", content, "None")
    /\ UNCHANGED << pc, caller, failure, st, trace, agentReply, agentCalls,
                    agentFault, searchCall, agentContext, llmRequest, inv, fnInput, fnOutput, llmCalls, reply, events, chunkAt, http, db >>

\* The call of orchestrator.process both endpoints make, up to the point
\* where the workflow starts (or OrchestratorState(...) raises).
ProcessBegin(message, user_id, trip_id, trip_data, conversation_history) ==
    IF StateValid(user_id, trip_id)
    THEN /\ st' = OrchestratorState(message, user_id, trip_id, trip_data,
                                    conversation_history)
         /\ pc' = "classify"
         /\ reply' = None
    ELSE /\ st' = None
         /\ pc' = "done"
         /\ reply' = Raised("ValidationError")

\* str(conversation.trip_id) if conversation.trip_id else None
TripIdOf(trip) == IF trip = None THEN None ELSE StrVal("1")

\* POST /chat, down to the call of orchestrator.process
ChatBegin(message, trip) ==
    /\ pc = "idle"
    /\ caller' = "chat"
    /\ LET rows == AddMessage(store, "user", message, "None")
           messages == GetConversationMessages(rows, HISTORY_LIMIT, 0)
       IN  /\ store' = rows
           /\ ProcessBegin(message, StrVal("1"), TripIdOf(trip), trip,
                           ConversationHistory(messages))
    /\ UNCHANGED << failure, trace, agentReply, agentCalls, agentFault, searchCall, agentContext, llmRequest, inv, fnInput, fnOutput, llmCalls,
                    events, chunkAt, http, db >>

\* POST /chat with the id of a conversation that is missing or not the user's
ChatRefused(status) ==
    /\ pc = "idle"
    /\ caller' = "chat"
    /\ http' = status
    /\ failure' = "refused"
    /\ pc' = "done"
    /\ UNCHANGED << store, st, trace, agentReply, agentCalls, agentFault, searchCall, agentContext, llmRequest, inv, fnInput, fnOutput,
                    llmCalls, reply, events, chunkAt, db >>

\* POST /chat, after orchestrator.process has returned
ChatFinish ==
    /\ pc = "returned"
    /\ caller = "chat"
    /\ IF HasAttr(reply, "actions")
       THEN /\ store' = AddMessage(store, "assistant", reply.message, reply.agent_type)
            /\ http' = 200
            /\ UNCHANGED failure
       ELSE /\ failure' = "AttributeError"
            /\ http' = 500
            /\ UNCHANGED store
    /\ pc' = "done"
    /\ UNCHANGED << caller, st, trace, agentReply, agentCalls, agentFault, searchCall, agentContext, llmRequest, inv, fnInput, fnOutput,
                    llmCalls, reply, events, chunkAt, db >>

\* The events of chat_stream
ConversationIdEvent == [type |-> "conversation_id"]

ChunkEvent(content) == [type |-> "chunk", content |-> content]

MetadataEvent(response) ==
    [ type        |-> "metadata",
      agent_type  |-> response.agent_type,
      suggestions |-> response.suggestions,
      actions     |-> response.actions ]

DoneEvent(message_id) == [type |-> "done", message_id |-> message_id]

ErrorEvent(message) == [type |-> "error", message |-> message]

\* {'error': ...}: the event of the two early returns, which has no type
RefusalEvent(message) == [error |-> message]

\* POST /chat/stream with the id of a conversation that is missing or not
\* the user's
StreamRefused(message) ==
    /\ pc = "idle"
    /\ caller' = "stream"
    /\ events' = << RefusalEvent(message) >>
    /\ failure' = "refused"
    /\ pc' = "done"
    /\ UNCHANGED << store, st, trace, agentReply, agentCalls, agentFault, searchCall, agentContext, llmRequest, inv, fnInput, fnOutput,
                    llmCalls, reply, chunkAt, http, db >>

\* POST /chat/stream, down to the call of orchestrator.process.  A database
\* failure while the user message is saved lands in the generator's except.
StreamBegin(message, trip, db_ok) ==
    /\ pc = "idle"
    /\ caller' = "stream"
    /\ IF db_ok
       THEN LET rows == AddMessage(store, "user", message, "None")
                messages == GetConversationMessages(rows, HISTORY_LIMIT, 0)
            IN  /\ store' = rows
                /\ events' = << ConversationIdEvent >>
                /\ ProcessBegin(message, StrVal("1"), TripIdOf(trip), trip,
                                ConversationHistory(messages))
                /\ UNCHANGED failure
       ELSE /\ events' = << ConversationIdEvent, ErrorEvent("DatabaseError") >>
            /\ failure' = "DatabaseError"
            /\ pc' = "done"
            /\ UNCHANGED << store, st, reply >>
    /\ UNCHANGED << trace, agentReply, agentCalls, agentFault, searchCall, agentContext, llmRequest, inv, fnInput, fnOutput, llmCalls,
                    chunkAt, http, db >>

\* chunk_size = 20
CHUNK_SIZE == 20

\* message_content[i:chunk_size], the slice with its end not moved along
ChunkFixedEnd(message_content, i) ==
    SubSeq(message_content, i + 1, Min(CHUNK_SIZE, Len(message_content)))

\* message_content[i:i + chunk_size]
Chunk(message_content, i) ==
    SubSeq(message_content, i + 1, Min(i + CHUNK_SIZE, Len(message_content)))

\* One turn of  for i in range(0, len(message_content), chunk_size)
StreamChunk ==
    /\ pc = "returned"
    /\ caller = "stream"
    /\ chunkAt < Len(reply.message)
    /\ events' = Append(events, ChunkEvent(Chunk(reply.message, chunkAt)))
    /\ chunkAt' = chunkAt + CHUNK_SIZE
    /\ UNCHANGED << store, pc, caller, failure, st, trace, agentReply, agentCalls,
                    agentFault, searchCall, agentContext, llmRequest, inv, fnInput, fnOutput, llmCalls, reply, http, db >>

\* chat_stream after the loop: the metadata event, the assistant row and the
\* done event; the f-string of the metadata event reads agent_response.actions
\* and the generator's except turns what it raises into an error event.
StreamFinish ==
    /\ pc = "returned"
    /\ caller = "stream"
    /\ chunkAt >= Len(reply.message)
    /\ IF HasAttr(reply, "actions")
       THEN LET rows == AddMessage(store, "assistant", reply.message,
                                   reply.agent_type)
            IN  /\ store' = rows
                /\ events' = events \o << MetadataEvent(reply), DoneEvent(Len(rows)) >>
                /\ UNCHANGED failure
       ELSE /\ events' = Append(events, ErrorEvent("AttributeError"))
            /\ failure' = "AttributeError"
            /\ UNCHANGED store
    /\ pc' = "done"
    /\ UNCHANGED << caller, st, trace, agentReply, agentCalls, agentFault, searchCall, agentContext, llmRequest, inv, fnInput, fnOutput,
                    llmCalls, reply, chunkAt, http, db >>

\* A direct caller of MasterOrchestrator.process
DirectBegin(message, user_id, trip, conversation_history) ==
    /\ pc = "idle"
    /\ caller' = "process"
    /\ ProcessBegin(message, user_id, TripIdOf(trip), trip,
                    conversation_history)
    /\ UNCHANGED << store, failure, trace, agentReply, agentCalls, agentFault, searchCall, agentContext, llmRequest, inv, fnInput, fnOutput,
                    llmCalls, events, chunkAt, http, db >>

\* MasterOrchestrator.process_with_context: the AgentContext it is given
\* holds user_id: int and trip_id: Optional[int].
ContextBegin(message, trip) ==
    /\ pc = "idle"
    /\ caller' = "process_with_context"
    /\ ProcessBegin(message, IntVal("1"),
                    IF trip = None THEN None ELSE IntVal("1"), trip, << >>)
    /\ UNCHANGED << store, failure, trace, agentReply, agentCalls, agentFault, searchCall, agentContext, llmRequest, inv, fnInput, fnOutput,
                    llmCalls, events, chunkAt, http, db >>

\* The request is over; the next one starts from the stored conversation.
Reset ==
    /\ \/ pc = "done"
       \/ pc = "returned" /\ caller \in {"process", "process_with_context"}
    /\ pc' = "idle"
    /\ caller' = "none"
    /\ st' = None
    /\ trace' = << >>
    /\ agentReply' = None
    /\ agentCalls' = 0
    /\ agentFault' = "none"
    /\ searchCall' = None
    /\ agentContext' = None
    /\ llmRequest' = None
    /\ UNCHANGED << inv, fnInput, fnOutput, db >>
    /\ llmCalls' = 0
    /\ reply' = None
    /\ events' = << >>
    /\ chunkAt' = 0
    /\ http' = 0
    /\ failure' = "none"
    /\ UNCHANGED store
-----------------------------------------------------------------------------
(* Concurrent invocations of MasterOrchestrator.process on the instance
   get_orchestrator hands out.  inv[i] is invocation i: where it is, the
   arguments it was called with, its OrchestratorState, what the search
   upstream and the provider did for it, and what it returned. *)

\* The most invocations in flight.
MaxInvocations == 2

Invocations == 1..MaxInvocations

\* A message for the accommodation responder and one for no responder.
ConcurrentMessages == {Msg1, Msg2}

\* The exceptions injected into the responders of concurrent invocations.
ConcurrentFaults == {"none", "call_ai"}

\* The working state kept on the orchestrator instance, which all
\* invocations share.
StateOwnerShared(i) == 1

\* Where invocation i keeps its working state: process builds
\* initial_state as a local, and the workflow hands each node the state of
\* the invocation it runs for.
StateOwner(i) == i

IdleInvocation ==
    [ pc       |-> "idle",
      message  |-> << >>,
      st       |-> None,
      upstream |-> "results",
      fault    |-> "none",
      outcome  |-> "ok",
      reply    |-> None,
      overlap  |-> FALSE ]

InFlight(i) == inv[i].pc \notin {"idle", "returned"}

\* The working state invocation i reads.
WorkingState(i) == inv[StateOwner(i)].st

\* inv after invocation i has moved to pc and stored a working state.
Stepped(i, to, state) ==
    LET moved == [inv EXCEPT ![i].pc = to]
    IN  [moved EXCEPT ![StateOwner(i)].st = state]

\* process is called: it builds initial_state.
ConcurrentProcess(i) ==
    /\ inv[i].pc = "idle"
    /\ \E message \in ConcurrentMessages :
         LET overlap == \E j \in Invocations : j # i /\ InFlight(j)
             called == [j \in Invocations |->
                          IF j = i
                          THEN [inv[j] EXCEPT !.pc = "classify",
                                              !.message = message,
                                              !.overlap = overlap]
                          ELSE IF InFlight(j) THEN [inv[j] EXCEPT !.overlap = TRUE]
                          ELSE inv[j]]
         IN  inv' = [called EXCEPT ![StateOwner(i)].st =
                        OrchestratorState(message, StrVal("1"), None, None, << >>)]

ConcurrentClassify(i) ==
    /\ inv[i].pc = "classify"
    /\ LET state == ClassifyState(WorkingState(i))
       IN  inv' = Stepped(i, IF ShouldUseAgent(state.selected_agent) = "agent"
                             THEN "route_to_agent" ELSE "handle_general", state)

ConcurrentRouteToAgent(i) ==
    /\ inv[i].pc = "route_to_agent"
    /\ \E upstream \in UpstreamOutcomes, fault \in ConcurrentFaults :
         inv' = [Stepped(i, "process_response",
                         RouteToAgentState(WorkingState(i), upstream, fault))
                   EXCEPT ![i].upstream = upstream, ![i].fault = fault]

ConcurrentHandleGeneral(i) ==
    /\ inv[i].pc = "handle_general"
    /\ \E outcome \in {"ok", "ProviderError"} :
         inv' = [Stepped(i, "process_response",
                         HandleGeneralState(WorkingState(i), outcome))
                   EXCEPT ![i].outcome = outcome]

ConcurrentProcessResponse(i) ==
    /\ inv[i].pc = "process_response"
    /\ inv' = Stepped(i, "end", ProcessResponseState(WorkingState(i)))

ConcurrentReturn(i) ==
    /\ inv[i].pc = "end"
    /\ \E result \in ProcessResults(WorkingState(i)) :
         inv' = [inv EXCEPT ![i].pc = "returned", ![i].reply = result]

\* No invocation in flight yet.
InitConcurrent ==
    /\ inv = [i \in Invocations |-> IdleInvocation]
    /\ pc = "concurrent"
    /\ store = << >>
    /\ caller = "direct"
    /\ failure = "none"
    /\ st = None
    /\ trace = << >>
    /\ agentReply = None
    /\ agentCalls = 0
    /\ agentFault = "none"
    /\ searchCall = None
    /\ agentContext = None
    /\ llmRequest = None
    /\ fnInput = None
    /\ fnOutput = None
    /\ llmCalls = 0
    /\ reply = None
    /\ events = << >>
    /\ chunkAt = 0
    /\ http = 0
    /\ db = EmptyDb

NextConcurrent ==
    /\ \E i \in Invocations :
          \/ ConcurrentProcess(i)
          \/ ConcurrentClassify(i)
          \/ ConcurrentRouteToAgent(i)
          \/ ConcurrentHandleGeneral(i)
          \/ ConcurrentProcessResponse(i)
          \/ ConcurrentReturn(i)
    /\ UNCHANGED << store, pc, caller, failure, st, trace, agentReply, agentCalls,
                    agentFault, searchCall, agentContext, llmRequest, fnInput,
                    fnOutput, llmCalls, reply, events, chunkAt, http, db >>

SpecConcurrent == InitConcurrent /\ [][NextConcurrent]_vars
-----------------------------------------------------------------------------
(* The search a responder makes: the request the lodging responder hands to
   search_hotels, and process seen with the request next to the reply *)

\* date.today() of the invocation
TODAY == IsoOrdinal(<<"2", "0", "2", "5", "-", "0", "1", "-", "0", "1">>)

\* _search_hotels: check_in and check_out.  A str is parsed with
\* date.fromisoformat, which raises ValueError for a text that is no date.
CheckDate(context, key) ==
    IF HasTripData(context)
    THEN AsDate(DictGet(context.trip_data, key, TODAY))
    ELSE TODAY

\* _search_hotels:  entities.get("travelers") or (... if context.trip_data else 2)
SearchTravelers(context, travelers) ==
    IF TruthyValue(travelers) THEN travelers
    ELSE IF HasTripData(context)
    THEN DictGet(context.trip_data, "travelers_count", IntVal(2))
    ELSE IntVal(2)

HotelsRequest(location, check_in, check_out, adults) ==
    IF IsRaised(check_in) THEN check_in
    ELSE IF IsRaised(check_out) THEN check_out
    ELSE [ location  |-> location,
           check_in  |-> check_in,
           check_out |-> check_out,
           adults    |-> adults,
           limit     |-> IntVal(5) ]

\* AccommodationAgent._search_hotels up to its call of search_hotels: the
\* arguments of the call, or the exception raised before it.
SearchHotelsRequest(context, entities) ==
    HotelsRequest(SearchLocation(context, entities.locations),
                  CheckDate(context, "start_date"),
                  CheckDate(context, "end_date"),
                  SearchTravelers(context, entities.travelers))

\* AccommodationAgent.process with a provider that answers: the request
\* made to search_hotels (None when none is made), what the search
\* returned, and the reply.
LodgingOutcome(context, can_search, request, hotels) ==
    [ request |-> IF can_search /\ ~IsRaised(request) THEN request ELSE None,
      hotels  |-> IF can_search /\ ~IsRaised(request) THEN hotels ELSE "none",
      reply   |-> IF can_search /\ IsRaised(request)
                  THEN CannedApology("accommodation")
                  ELSE AgentProcess("accommodation", context, hotels, "none") ]

AccommodationProcess(context, hotels) ==
    LodgingOutcome(context,
                   CanPerformSearch(context, ExtractLocations(context.message)),
                   SearchHotelsRequest(context, ExtractEntities(context.message)),
                   hotels)
-----------------------------------------------------------------------------
(* The budget responder's estimates *)

\* BudgetAgent._calculate_estimates
CalculateEstimates(days, travelers) ==
    [ accommodation |->
        [ budget    |-> [total |-> days * 400000,  per_night |-> 400000],
          mid_range |-> [total |-> days * 1000000, per_night |-> 1000000],
          luxury    |-> [total |-> days * 3000000, per_night |-> 3000000] ],
      food |->
        [ budget    |-> [total |-> days * travelers * 200000,  per_day |-> 200000],
          mid_range |-> [total |-> days * travelers * 500000,  per_day |-> 500000],
          luxury    |-> [total |-> days * travelers * 1000000, per_day |-> 1000000] ],
      transport |->
        [ local      |-> [total |-> days * 150000],
          inter_city |-> [estimated |-> 500000] ],
      activities |->
        [ per_day |-> 300000,
          total   |-> days * 300000 ] ]
-----------------------------------------------------------------------------
(* The trips API: trips owned by users, and the accommodations, restaurants,
   activities and expenses attached to a trip.  One row of db.trips is
   [id, user_id]; one row of db.records is [kind, id, trip_id, notes], the
   kind naming the table the row is in. *)

\* users.id of the users who call the API.
Users == {1, 2}

\* The values of the notes field, which every create and update schema has.
Notes == {"draft", "final"}

\* trip_service.get_trip: the trip with this id, or None.
GetTrip(database, trip_id) ==
    IF \E trip \in database.trips : trip.id = trip_id
    THEN CHOOSE trip \in database.trips : trip.id = trip_id
    ELSE None

\* trip_service.create_trip: a new row owned by user_id, with the next id.
ServiceCreateTrip(database, user_id) ==
    [database EXCEPT
        !.trips     = @ \cup {[id |-> database.last_trip + 1, user_id |-> user_id]},
        !.last_trip = @ + 1]

\* trip_service.delete_trip: the trip goes, and with it every record attached
\* to it (cascade="all, delete-orphan").
ServiceDeleteTrip(database, trip) ==
    [database EXCEPT
        !.trips   = @ \ {trip},
        !.records = {record \in @ : record.trip_id # trip.id}]

\* trip_service.add_accommodation, add_restaurant, add_activity, add_expense.
ServiceAdd(database, kind, trip_id, notes) ==
    [database EXCEPT
        !.records = @ \cup {[kind    |-> kind,
                             id      |-> database.last_id[kind] + 1,
                             trip_id |-> trip_id,
                             notes   |-> notes]},
        !.last_id[kind] = @ + 1]

\* The select of the update_ and delete_ functions of trip_service: the row of
\* the table with this id, whatever trip it is attached to, or None.
RecordById(database, kind, id) ==
    IF \E record \in database.records : record.kind = kind /\ record.id = id
    THEN CHOOSE record \in database.records : record.kind = kind /\ record.id = id
    ELSE None

\* trip_service.update_accommodation, update_restaurant, update_activity,
\* update_expense: the database after the call; unchanged when no row has the id.
ServiceUpdate(database, kind, id, notes) ==
    LET record == RecordById(database, kind, id)
    IN  IF record = None
        THEN database
        ELSE [database EXCEPT
                 !.records = (@ \ {record}) \cup {[record EXCEPT !.notes = notes]}]

\* trip_service.delete_accommodation, delete_restaurant, delete_activity,
\* delete_expense.
ServiceDelete(database, kind, id) ==
    LET record == RecordById(database, kind, id)
    IN  IF record = None
        THEN database
        ELSE [database EXCEPT !.records = @ \ {record}]

\* The check every handler of a record makes first: the trip of the path
\* exists and is the caller's.
TripIsCallers(database, trip_id, user) ==
    LET trip == GetTrip(database, trip_id)
    IN  trip # None /\ trip.user_id = user

\* The most trips ever created, and the most records ever created.
MaxTrips == 2

MaxRecords == 1

\* The number of records created so far, over the four tables.
RecordsCreated(database) ==
    database.last_id["accommodations"] + database.last_id["restaurants"]
        + database.last_id["activities"] + database.last_id["expenses"]

\* What a handler of the trips API leaves alone.
TripsFrame ==
    UNCHANGED << store, pc, caller, failure, st, trace, agentReply, agentCalls,
                 agentFault, searchCall, agentContext, llmRequest, inv,
                 fnOutput, llmCalls, reply, events, chunkAt >>

\* POST /trips
CreateTrip(user) ==
    /\ pc = "trips"
    /\ db.last_trip < MaxTrips
    /\ fnInput' = [op |-> "create_trip", user |-> user]
    /\ db' = ServiceCreateTrip(db, user)
    /\ http' = 201
    /\ TripsFrame

\* DELETE /trips/{trip_id}
DeleteTrip(user, trip_id) ==
    /\ pc = "trips"
    /\ fnInput' = [op |-> "delete_trip", user |-> user, trip_id |-> trip_id]
    /\ LET trip == GetTrip(db, trip_id)
       IN  IF trip = None
           THEN http' = 404 /\ UNCHANGED db
           ELSE IF trip.user_id # user
           THEN http' = 403 /\ UNCHANGED db
           ELSE http' = 204 /\ db' = ServiceDeleteTrip(db, trip)
    /\ TripsFrame

\* POST /trips/{trip_id}/accommodations, and the same for restaurants,
\* activities and expenses
AddRecord(user, kind, trip_id, notes) ==
    /\ pc = "trips"
    /\ RecordsCreated(db) < MaxRecords
    /\ fnInput' = [op |-> "add", user |-> user, kind |-> kind, trip_id |-> trip_id]
    /\ IF ~TripIsCallers(db, trip_id, user)
       THEN http' = 404 /\ UNCHANGED db
       ELSE http' = 201 /\ db' = ServiceAdd(db, kind, trip_id, notes)
    /\ TripsFrame

\* PATCH /trips/{trip_id}/accommodations/{accommodation_id}, and the same for
\* restaurants, activities and expenses
UpdateRecord(user, kind, trip_id, id, notes) ==
    /\ pc = "trips"
    /\ fnInput' = [op |-> "update", user |-> user, kind |-> kind,
                   trip_id |-> trip_id, id |-> id]
    /\ IF ~TripIsCallers(db, trip_id, user)
       THEN http' = 404 /\ UNCHANGED db
       ELSE /\ db' = ServiceUpdate(db, kind, id, notes)
            /\ http' = IF RecordById(db, kind, id) = None THEN 404 ELSE 200
    /\ TripsFrame

\* DELETE /trips/{trip_id}/accommodations/{accommodation_id}, and the same for
\* restaurants, activities and expenses
DeleteRecord(user, kind, trip_id, id) ==
    /\ pc = "trips"
    /\ fnInput' = [op |-> "delete", user |-> user, kind |-> kind,
                   trip_id |-> trip_id, id |-> id]
    /\ IF ~TripIsCallers(db, trip_id, user)
       THEN http' = 404 /\ UNCHANGED db
       ELSE /\ db' = ServiceDelete(db, kind, id)
            /\ http' = IF RecordById(db, kind, id) = None THEN 404 ELSE 204
    /\ TripsFrame

\* The API before its first request.
InitTrips ==
    /\ pc = "trips"
    /\ store = << >>
    /\ caller = "direct"
    /\ Quiet

NextTrips ==
    \/ \E user \in Users : CreateTrip(user)
    \/ \E user \in Users, trip_id \in 1..MaxTrips : DeleteTrip(user, trip_id)
    \/ \E user \in Users, kind \in RecordKinds, trip_id \in 1..MaxTrips, notes \in Notes :
           AddRecord(user, kind, trip_id, notes)
    \/ \E user \in Users, kind \in RecordKinds, trip_id \in 1..MaxTrips,
          id \in 1..MaxRecords, notes \in Notes :
           UpdateRecord(user, kind, trip_id, id, notes)
    \/ \E user \in Users, kind \in RecordKinds, trip_id \in 1..MaxTrips,
          id \in 1..MaxRecords :
           DeleteRecord(user, kind, trip_id, id)

SpecTrips == InitTrips /\ [][NextTrips]_vars
-----------------------------------------------------------------------------
(* The service: one conversation of one user, one request at a time *)

\* The most rows the conversation is let grow to.
MaxStore == 2

\* The user ids a direct caller of process passes.
DirectUserIds == {StrVal("1"), StrVal("user-123"), IntVal("1")}

\* The histories a direct caller of process passes.
DirectHistories == { << >>, << [role |-> "user", content |-> Msg2] >> }

Init ==
    /\ store = << >>
    /\ pc = "idle"
    /\ caller = "none"
    /\ Quiet

Workflow ==
    \/ Classify
    \/ RouteToAgent
    \/ HandleGeneral
    \/ ProcessResponse
    \/ ProcessReturn

Next ==
    \/ \E m \in ChatMessages : Len(store) < MaxStore /\ AddMessageRequest(m)
    \/ \E m \in ChatMessages, trip \in TripSnapshots :
           Len(store) < MaxStore /\ ChatBegin(m, trip)
    \/ \E status \in {403, 404} : ChatRefused(status)
    \/ \E m \in ChatMessages, trip \in TripSnapshots, db_ok \in BOOLEAN :
           Len(store) < MaxStore /\ StreamBegin(m, trip, db_ok)
    \/ \E message \in {"Conversation not found", "Not authorized"} :
           StreamRefused(message)
    \/ \E m \in ChatMessages, user_id \in DirectUserIds, trip \in TripSnapshots,
          history \in DirectHistories : DirectBegin(m, user_id, trip, history)
    \/ \E m \in ChatMessages, trip \in TripSnapshots : ContextBegin(m, trip)
    \/ Workflow
    \/ ChatFinish
    \/ StreamChunk
    \/ StreamFinish
    \/ Reset

Spec == Init /\ [][Next]_vars
-----------------------------------------------------------------------------
(* Streaming a reply text of any length *)

\* The longest reply text streamed.
MaxReplyLen == 61

ReplyAlphabet == << "a", "b", "c" >>

\* A reply text of n characters.
ReplyText(n) == [i \in 1..n |-> ReplyAlphabet[(i % Len(ReplyAlphabet)) + 1]]

\* chat_stream at the return of orchestrator.process, which handed back a
\* reply text of some length up to MaxReplyLen.
InitChunk ==
    \E n \in 0..MaxReplyLen :
        LET response == [ message     |-> ReplyText(n),
                          agent_type  |-> "general",
                          suggestions |-> GENERAL_SUGGESTIONS ]
        IN  /\ store = AddMessage(<< >>, "user", Msg2, "None")
            /\ pc = "returned"
            /\ caller = "stream"
            /\ failure = "none"
            /\ st = [OrchestratorState(Msg2, StrVal("1"), None, None, << >>)
                       EXCEPT !.selected_agent = GENERAL, !.response = response]
            /\ trace = << "classify", "handle_general", "process_response" >>
            /\ agentReply = None
            /\ agentCalls = 0
            /\ agentFault = "none"
            /\ searchCall = None
            /\ agentContext = None
            /\ llmRequest = None
            /\ inv = << >>
            /\ fnInput = None
            /\ fnOutput = None
            /\ llmCalls = 1
            /\ reply = FromResponseData(response)
            /\ events = << ConversationIdEvent >>
            /\ chunkAt = 0
            /\ http = 0
            /\ db = EmptyDb

NextChunk ==
    \/ StreamChunk
    \/ StreamFinish

SpecChunk == InitChunk /\ [][NextChunk]_vars

-----------------------------------------------------------------------------
(* A conversation that grows turn after turn *)

\* The most rows the conversation is let grow to.
MaxHistoryRows == 22

Numeral(k) ==
    IF k < 10 THEN << Digits[k + 1] >>
    ELSE << Digits[(k \div 10) + 1], Digits[(k % 10) + 1] >>

\* The k-th message of the conversation: "Xin chao" and its number, a text
\* without any keyword.
TurnText(k) == Msg2 \o << " " >> \o Numeral(k)

NextHistory ==
    \/ /\ Len(store) < MaxHistoryRows
       /\ AddMessageRequest(TurnText(Len(store) + 1))
    \/ /\ Len(store) < MaxHistoryRows
       /\ ChatBegin(TurnText(Len(store) + 1), None)
    \/ Classify
    \/ HandleGeneral
    \/ ProcessResponse
    \/ ProcessReturn
    \/ ChatFinish
    \/ Reset

SpecHistory == Init /\ [][NextHistory]_vars
-----------------------------------------------------------------------------
(* Classification alone, as the unit tests drive it: a state is built for a *)
(* message and _classify_intent is applied to it.                           *)

Vocabulary ==
    { <<"k", "h", "a'", "c", "h", " ", "s", "a.", "n">>, <<"H", "o", "t", "e", "l">>,
      <<"h", "o", "m", "e", "s", "t", "a", "y">>, <<"p", "h", "o+?">>, <<"a(", "n">>,
      <<"b", "a", "y">>, <<"dd", "i">>, <<"dd", "i", "e^?", "m", " ", "dd", "e^'", "n">>,
      <<"n", "g", "a_", "y">>, <<"c", "h", "i", " ", "p", "h", "i'">>, <<"g", "i", "a'">>,
      <<"x", "i", "n">>, <<"c", "h", "a", "o">>, <<"k", "h", "a", "c", "h", " ", "s", "a", "n">>,
      <<"T", "i", "m">> }

TestMessages ==
    << [expected |-> "accommodation",
        message |-> <<"T", "i", "m", " ", "k", "h", "a", "c", "h", " ", "s", "a", "n", " ", "o", " ", "H", "a", " ", "N", "o", "i">>],
       [expected |-> "food",
        message |-> <<"G", "o", "i", " ", "y", " ", "n", "h", "a", " ", "h", "a", "n", "g", " ", "a", "n", " ", "p", "h", "o">>],
       [expected |-> "transport",
        message |-> <<"T", "i", "m", " ", "c", "h", "u", "y", "e", "n", " ", "b", "a", "y", " ", "d", "i", " ", "D", "a", " ", "N", "a", "n", "g">>],
       [expected |-> "itinerary",
        message |-> <<"L", "a", "p", " ", "l", "i", "c", "h", " ", "t", "r", "i", "n", "h", " ", "d", "u", " ", "l", "i", "c", "h", " ", "3", " ", "n", "g", "a", "y">>],
       [expected |-> "budget",
        message |-> <<"U", "o", "c", " ", "t", "i", "n", "h", " ", "c", "h", "i", " ", "p", "h", "i", " ", "c", "h", "o", " ", "c", "h", "u", "y", "e", "n", " ", "d", "i">>] >>

MaxWords == 2

\* The messages made of n words of the vocabulary separated by one space.
RECURSIVE Phrases(_)
Phrases(n) ==
    IF n = 1 THEN Vocabulary
    ELSE {p \o << " " >> \o w : p \in Phrases(n - 1), w \in Vocabulary}

ClassifyMessages ==
    UNION {Phrases(n) : n \in 1..MaxWords}
        \cup {TestMessages[i].message : i \in 1..Len(TestMessages)}

InitClassify ==
    /\ store = << >>
    /\ caller = "test"
    /\ pc = "classify"
    /\ \E m \in ClassifyMessages :
           st = OrchestratorState(m, StrVal("user-123"), None, None, << >>)
    /\ trace = << >>
    /\ agentReply = None
    /\ agentCalls = 0
    /\ agentFault = "none"
    /\ searchCall = None
    /\ agentContext = None
    /\ llmRequest = None
    /\ inv = << >>
    /\ fnInput = None
    /\ fnOutput = None
    /\ llmCalls = 0
    /\ reply = None
    /\ events = << >>
    /\ chunkAt = 0
    /\ http = 0
    /\ db = EmptyDb
    /\ failure = "none"

NextClassify == Classify

SpecClassify == InitClassify /\ [][NextClassify]_vars

\* The domains with at least one keyword occurring in the lower-cased message.
MatchedDomains(message) ==
    {d \in Domains :
        \E i \in 1..Len(intent_keywords[d]) :
            Contains(intent_keywords[d][i], LowerStr(message))}

Classified == st # None /\ st.selected_agent # "None"

\* C2: a message holding keywords of exactly one domain, and of no other, is
\* classified to that domain.
C2_SingleDomainSelected ==
    Classified =>
        \A d \in Domains :
            MatchedDomains(st.message) = {d} => st.selected_agent = d

C2_Witness ==
    /\ Classified
    /\ MatchedDomains(st.message) = {"food"}
    /\ st.selected_agent = "food"
    /\ pc = "route_to_agent"

\* C3: a message holding no keyword of any domain is classified to the
\* fallback "general", and _should_use_agent then answers "general".
C3_NoKeywordGeneral ==
    (Classified /\ MatchedDomains(st.message) = {}) =>
        /\ st.selected_agent = GENERAL
        /\ ShouldUseAgent(st.selected_agent) = "general"
        /\ pc # "route_to_agent"

C3_Witness ==
    /\ Classified
    /\ MatchedDomains(st.message) = {}
    /\ st.selected_agent = GENERAL
    /\ pc = "handle_general"

\* C4: each request of the test suite typed without diacritics is classified
\* to the domain its test expects.
C4_UndiacriticClassified ==
    \A i \in 1..Len(TestMessages) :
        (Classified /\ st.message = TestMessages[i].message)
            => st.selected_agent = TestMessages[i].expected

-----------------------------------------------------------------------------
(* Properties of MasterOrchestrator.process *)

\* A reply with message text, agent_type and suggestions list.
WellFormedReply(r) ==
    /\ ~IsRaised(r)
    /\ HasAttr(r, "message")
    /\ HasAttr(r, "agent_type")
    /\ HasAttr(r, "suggestions")

\* process has come to its end, by a return or by an exception.
ProcessOver == reply # None

\* C1: whatever process is given and whatever its collaborators do, it ends
\* by returning a well-formed reply; no exception leaves it.
C1_ProcessAlwaysReplies ==
    ProcessOver => WellFormedReply(reply)

\* C5: the reply a responder returned without raising is the reply process
\* returns, field for field, requires_followup included, and state.error is
\* left unset.
C5_ReplyPassedThrough ==
    (pc = "returned" /\ agentCalls > 0) =>
        /\ reply.message = agentReply.message
        /\ reply.agent_type = agentReply.agent_type
        /\ reply.data = agentReply.data
        /\ reply.suggestions = agentReply.suggestions
        /\ reply.requires_followup = agentReply.requires_followup
        /\ st.error = "None"

\* C6: a responder's process never raises; when one of its steps raises, it
\* returns a reply with its own agent_type, a non-empty message and between
\* 1 and 3 suggestions.
C6_ResponderNeverRaises ==
    agentCalls > 0 =>
        /\ ~IsRaised(agentReply)
        /\ agentFault # "none" =>
              /\ agentReply.agent_type = st.selected_agent
              /\ Len(agentReply.message) > 0
              /\ Len(agentReply.suggestions) \in 1..3

C6_Witness ==
    /\ agentCalls > 0
    /\ agentFault = "call_ai"
    /\ st.selected_agent = "transport"
    /\ agentReply.agent_type = "transport"
    /\ Len(agentReply.suggestions) = 3

KnownAgentTypes == Domains \cup {GENERAL, "error"}

\* C7: every reply process returns has agent_type among accommodation, food,
\* transport, itinerary, budget, general and error.
C7_AgentTypeKnown ==
    (ProcessOver /\ ~IsRaised(reply)) => reply.agent_type \in KnownAgentTypes

C7_Witness ==
    /\ pc = "returned"
    /\ agentCalls > 0
    /\ reply.agent_type = "error"

-----------------------------------------------------------------------------
(* Properties of chat_stream *)

EventType(e) == IF "type" \in DOMAIN e THEN e.type ELSE "None"

EventTypes(es) == [i \in 1..Len(es) |-> EventType(es[i])]

\* conversation_id, then chunks only
ChunksAfterId(types) ==
    /\ Len(types) >= 1
    /\ types[1] = "conversation_id"
    /\ \A i \in 2..Len(types) : types[i] = "chunk"

\* conversation_id, chunk*, metadata, done
CompleteStream(es) ==
    LET types == EventTypes(es)
        n == Len(es)
    IN  /\ n >= 3
        /\ ChunksAfterId(SubSeq(types, 1, n - 2))
        /\ types[n - 1] = "metadata"
        /\ types[n] = "done"
        /\ es[n].message_id = store[Len(store)].id
        /\ store[Len(store)].role = "assistant"

\* a beginning of the complete sequence, then one error event, the last
FailedStream(es) ==
    LET types == EventTypes(es)
        n == Len(es)
    IN  /\ n >= 1
        /\ types[n] = "error"
        /\ \/ n = 1
           \/ ChunksAfterId(SubSeq(types, 1, n - 1))
           \/ n >= 3 /\ ChunksAfterId(SubSeq(types, 1, n - 2)) /\ types[n - 1] = "metadata"

\* C8: a streamed turn emits conversation_id, then chunks, then metadata,
\* then done with the id of the stored assistant message; when the database
\* fails, one error event takes the place of what remained.
C8_StreamEventOrder ==
    (pc = "done" /\ caller = "stream" /\ failure # "refused") =>
        IF failure = "DatabaseError"
        THEN FailedStream(events)
        ELSE CompleteStream(events)

\* The chunk events of the stream, in order.
ChunkContents(es) ==
    LET chunks == SelectSeq(es, LAMBDA e : EventType(e) = "chunk")
    IN  [i \in 1..Len(chunks) |-> chunks[i].content]

RECURSIVE Concat(_)
Concat(parts) ==
    IF Len(parts) = 0 THEN << >> ELSE Head(parts) \o Concat(Tail(parts))

CeilDiv(a, b) == (a + b - 1) \div b

\* C9: a reply text of length L is streamed as ceil(L/20) chunks, in order,
\* all of 20 characters but the last, which has the rest, and the chunks put
\* end to end are the reply text.
C9_ChunksPartitionReply ==
    (pc = "done" /\ caller = "stream" /\ ProcessOver) =>
        LET L == Len(reply.message)
            chunks == ChunkContents(events)
            n == Len(chunks)
        IN  /\ n = CeilDiv(L, 20)
            /\ \A i \in 1..(n - 1) : Len(chunks[i]) = 20
            /\ n > 0 => Len(chunks[n]) = L - 20 * (n - 1)
            /\ Concat(chunks) = reply.message
            /\ ChunksAfterId(SubSeq(EventTypes(events), 1, n + 1))

C9_Witness ==
    /\ pc = "done"
    /\ caller = "stream"
    /\ Len(reply.message) = 47
    /\ [i \in 1..Len(ChunkContents(events)) |-> Len(ChunkContents(events)[i])]
           = << 20, 20, 7 >>

-----------------------------------------------------------------------------
(* Properties of the history chat hands to the orchestrator *)

\* The last n elements of a sequence, or all of it when it is shorter.
LastN(s, n) == SubSeq(s, IF Len(s) > n THEN Len(s) - n + 1 ELSE 1, Len(s))

\* The {role, content} of the most recent rows, at most 20, that precede
\* the row of the current user message, which is the last one.
RecentHistory(rows) ==
    LET preceding == SubSeq(rows, 1, Len(rows) - 1)
        recent == LastN(preceding, 20)
    IN  [i \in 1..Len(recent) |->
            [role |-> recent[i].role, content |-> recent[i].content]]

\* C10: at every chat turn the history handed to the orchestrator is the
\* most recent messages, at most 20, that precede the current user message,
\* oldest first, and the current user message is not in it.
C10_HistoryMostRecent ==
    (pc = "classify" /\ caller = "chat") =>
        /\ st.conversation_history = RecentHistory(store)
        /\ \A i \in 1..Len(st.conversation_history) :
               st.conversation_history[i].content # st.message
-----------------------------------------------------------------------------
(* Properties of what a chat turn persists *)

\* A provider call of the invocation has completed: one was made, and it did
\* not raise (in a responder, call_ai; in handle_general, the call itself).
LlmCompleted ==
    /\ st # None
    /\ llmCalls > 0
    /\ agentFault # "call_ai"
    /\ ~(st.selected_agent = GENERAL /\ Truthy(st.error))

\* The step adds a row with role "assistant" to the conversation.
AssistantPersisted ==
    /\ Len(store') = Len(store) + 1
    /\ store'[Len(store')].role = "assistant"

-----------------------------------------------------------------------------
(* Properties of the search integrations *)

\* The reply the responder called gives when its search returns nothing.
NoResultsReply == AgentPlan(st.selected_agent, agentContext, "empty").reply

\* C12: when the call of a search integration fails, the integration yields
\* an empty list and the responder answers with the reply of its no-results
\* branch; the turn does not fail.
C12_SearchFailureIsNoResults ==
    (agentCalls > 0 /\ searchCall # None /\ searchCall.upstream = "failed") =>
        /\ searchCall.results = "empty"
        /\ ~IsRaised(agentReply)
        /\ agentFault = "none" => agentReply = NoResultsReply
-----------------------------------------------------------------------------
(* extract_entities applied to texts put together from date-like, money,
   place and traveler fragments *)

\* The most fragments in a text.
MaxFragments == 2

Fragments ==
    << <<"1", "2", "/", "0", "5", "/", "2", "0", "2", "5">>,
       <<"1", "/", "6", "/", "2", "0", "2", "5">>,
       <<"2", "0", "2", "5", "-", "0", "5", "-", "2", "0">>,
       <<"5", " ", "t", "h", "a'", "n", "g", " ", "6">>,
       <<"2", " ", "t", "r", "i", "e^.", "u">>,
       <<"5", "0", "0", "k">>,
       <<"1", ".", "5", " ", "t", "r">>,
       <<"H", "a_", " ", "N", "o^.", "i">>,
       <<"DD", "a_", " ", "N", "a(~", "n", "g">>,
       <<"3", " ", "n", "g", "u+", "o+_", "i">>,
       <<"2", " ", "k", "h", "a'", "c", "h">>,
       <<"c", "h", "o">>,
       <<"3", " ", "n", "g", "a_", "y">> >>

\* The message of test_extract_entities.
EntitiesTestMessage ==
    <<"T", "i_", "m", " ", "k", "h", "a'", "c", "h", " ", "s", "a.", "n", " ", "o+?", " ", "DD", "a_", " ", "N", "a(~", "n", "g", " ", "c", "h", "o", " ", "3", " ", "n", "g", "u+", "o+_", "i", ",", " ", "n", "g", "a^", "n", " ", "s", "a'", "c", "h", " ", "2", " ", "t", "r", "i", "e^.", "u", "/", "dd", "e^", "m">>

RECURSIVE JoinFragments(_)
JoinFragments(ks) ==
    IF Len(ks) = 0 THEN << >>
    ELSE IF Len(ks) = 1 THEN Fragments[ks[1]]
    ELSE Fragments[ks[1]] \o << " " >> \o JoinFragments(Tail(ks))

EntityTexts ==
    {EntitiesTestMessage} \cup
    UNION {{JoinFragments(ks) : ks \in [1..n -> DOMAIN Fragments]} : n \in 1..MaxFragments}

\* A responder about to call self.extract_entities(text).
InitEntities ==
    /\ fnInput \in EntityTexts
    /\ fnOutput = None
    /\ pc = "extract_entities"
    /\ store = << >>
    /\ caller = "direct"
    /\ failure = "none"
    /\ st = None
    /\ trace = << >>
    /\ agentReply = None
    /\ agentCalls = 0
    /\ agentFault = "none"
    /\ searchCall = None
    /\ agentContext = None
    /\ llmRequest = None
    /\ inv = << >>
    /\ llmCalls = 0
    /\ reply = None
    /\ events = << >>
    /\ chunkAt = 0
    /\ http = 0
    /\ db = EmptyDb

CallExtractEntities ==
    /\ pc = "extract_entities"
    /\ fnOutput' = ExtractEntities(fnInput)
    /\ pc' = "extracted"
    /\ UNCHANGED << store, caller, failure, st, trace, agentReply, agentCalls,
                    agentFault, searchCall, agentContext, llmRequest, inv,
                    fnInput, llmCalls, reply, events, chunkAt, http, db >>

NextEntities == CallExtractEntities

SpecEntities == InitEntities /\ [][NextEntities]_vars

Elements(seq) == {seq[k] : k \in 1..Len(seq)}

\* Every date-like substring of the text, in any of the supported formats.
DateLike(text) ==
    UNION {Elements(FindAll(date_patterns[k], text, 1)) : k \in DOMAIN date_patterns}

\* C13: extract_entities lists all of the dates of the text, whatever their
\* formats, all of its money amounts and all of its gazetteer locations,
\* and the traveler count is the first traveler match as an integer.
C13_EntitiesCollectEveryMatch ==
    pc = "extracted" =>
        /\ DateLike(fnInput) \subseteq Elements(fnOutput.dates)
        /\ fnOutput.amounts = FindAll("money", fnInput, 1)
        /\ \A k \in DOMAIN locations :
               Contains(LowerStr(locations[k]), LowerStr(fnInput))
                   => locations[k] \in Elements(fnOutput.locations)
        /\ LET people == FindAll("people", fnInput, 1)
           IN  Len(people) > 0 => fnOutput.travelers = IntVal(ParseInt(people[1]))
-----------------------------------------------------------------------------
(* get_system_prompt applied to every trip snapshot with fields left out
   or null *)

TripKeys == {"destination", "start_date", "end_date", "travelers_count", "budget"}

\* The values a field of a snapshot takes when it is there: null, or what
\* chat puts there for a trip.
FieldValues ==
    [ destination     |-> {None, TripHanoi.destination},
      start_date      |-> {None, TripHanoi.start_date},
      end_date        |-> {None, TripHanoi.end_date},
      travelers_count |-> {None, TripHanoi.travelers_count},
      budget          |-> {None, FloatVal(5000000)} ]

\* The snapshots: no snapshot, or a dict with any of the keys, each null or
\* not.
PromptSnapshots ==
    {None} \cup
    UNION {{[k \in keys |-> pick[k]] :
               pick \in {p \in [TripKeys -> UNION {FieldValues[k] : k \in TripKeys}] :
                            \A k \in TripKeys : p[k] \in FieldValues[k]}} :
           keys \in SUBSET TripKeys}

\* A responder about to call self.get_system_prompt(context).
InitPrompt ==
    /\ \E name \in Domains, trip_data \in PromptSnapshots :
           fnInput = [ agent   |-> name,
                       context |-> AgentContext(IntVal(1), None, Msg1, << >>, trip_data) ]
    /\ fnOutput = None
    /\ pc = "get_system_prompt"
    /\ store = << >>
    /\ caller = "direct"
    /\ failure = "none"
    /\ st = None
    /\ trace = << >>
    /\ agentReply = None
    /\ agentCalls = 0
    /\ agentFault = "none"
    /\ searchCall = None
    /\ agentContext = None
    /\ llmRequest = None
    /\ inv = << >>
    /\ llmCalls = 0
    /\ reply = None
    /\ events = << >>
    /\ chunkAt = 0
    /\ http = 0
    /\ db = EmptyDb

CallGetSystemPrompt ==
    /\ pc = "get_system_prompt"
    /\ fnOutput' = GetSystemPrompt(fnInput.agent, fnInput.context)
    /\ pc' = "prompted"
    /\ UNCHANGED << store, caller, failure, st, trace, agentReply, agentCalls,
                    agentFault, searchCall, agentContext, llmRequest, inv,
                    fnInput, llmCalls, reply, events, chunkAt, http, db >>

NextPrompt == CallGetSystemPrompt

SpecPrompt == InitPrompt /\ [][NextPrompt]_vars

\* Whether a snapshot leaves a field out or has it null.
FieldMissing(trip_data, key) ==
    trip_data = None \/ DictGet(trip_data, key, None) = None

\* C14: get_system_prompt returns a prompt without raising whichever
\* fields of the snapshot are absent or null, and the line of such a field
\* shows a placeholder rather than the null itself.
C14_PromptDegradesGracefully ==
    pc = "prompted" =>
        /\ ~IsRaised(fnOutput)
        /\ \A k \in 1..Len(fnOutput.context_info) :
               LET line == fnOutput.context_info[k]
               IN  (line.about \in TripKeys
                    /\ FieldMissing(fnInput.context.trip_data, line.about))
                       => line.text # Str(None)
-----------------------------------------------------------------------------
(* generate_structured applied to every short completion *)

\* The most lexemes in a completion.
MaxLexemes == 5

Completions ==
    UNION {[1..n -> Lexemes] : n \in 0..MaxLexemes}

\* A backend about to parse what self.generate handed back.
InitStructured ==
    /\ \E backend \in Backends,
          response \in {Raised("APIError")} \cup {Completion(c) : c \in Completions} :
           fnInput = [backend |-> backend, response |-> response]
    /\ fnOutput = None
    /\ pc = "generate_structured"
    /\ store = << >>
    /\ caller = "direct"
    /\ failure = "none"
    /\ st = None
    /\ trace = << >>
    /\ agentReply = None
    /\ agentCalls = 0
    /\ agentFault = "none"
    /\ searchCall = None
    /\ agentContext = None
    /\ llmRequest = None
    /\ inv = << >>
    /\ llmCalls = 0
    /\ reply = None
    /\ events = << >>
    /\ chunkAt = 0
    /\ http = 0
    /\ db = EmptyDb

CallGenerateStructured ==
    /\ pc = "generate_structured"
    /\ fnOutput' = GenerateStructured(fnInput.backend, fnInput.response)
    /\ pc' = "structured"
    /\ UNCHANGED << store, caller, failure, st, trace, agentReply, agentCalls,
                    agentFault, searchCall, agentContext, llmRequest, inv,
                    fnInput, llmCalls, reply, events, chunkAt, http, db >>

NextStructured == CallGenerateStructured

SpecStructured == InitStructured /\ [][NextStructured]_vars

\* A JSON document between an opening fence line and a closing fence line.
FencedJson(content) ==
    \E open \in {"FENCE", "FENCE_JSON"} :
        content = << open, "NL", "OBJ", "NL", "FENCE" >>

\* A completion that is not JSON, fenced or not.
NotJson(content) ==
    /\ IsRaised(JsonLoads(content))
    /\ ~StartsWithFence(Strip(content))

\* C15: with either backend, a fenced JSON completion is parsed, a
\* completion that is not JSON fails with the parse error (ValueError), and
\* a failed upstream call fails with another error.
C15_StructuredParsesFencedJson ==
    pc = "structured" =>
        IF IsRaised(fnInput.response)
        THEN IsRaised(fnOutput) /\ fnOutput.error # "ValueError"
        ELSE /\ FencedJson(fnInput.response.content)
                    => fnOutput = [tag |-> "parsed", value |-> "OBJ"]
             /\ NotJson(fnInput.response.content)
                    => fnOutput = Raised("ValueError")
-----------------------------------------------------------------------------
(* Isolation of concurrent invocations *)

\* What an invocation returns when it runs alone with the same arguments
\* and is given the same search and provider results.
AloneReplies(invocation) ==
    LET classified == ClassifyState(
                          OrchestratorState(invocation.message, StrVal("1"),
                                            None, None, << >>))
        handled == IF ShouldUseAgent(classified.selected_agent) = "agent"
                   THEN RouteToAgentState(classified, invocation.upstream,
                                          invocation.fault)
                   ELSE HandleGeneralState(classified, invocation.outcome)
    IN  ProcessResults(ProcessResponseState(handled))

\* C16: whatever the interleaving, an invocation's working state is the one
\* it built from its own message, and it returns what it would return
\* alone with the same search and provider results.
C16_InvocationsIsolated ==
    \A i \in Invocations :
        /\ (InFlight(i) /\ inv[i].pc # "classify")
               => /\ WorkingState(i).message = inv[i].message
                  /\ WorkingState(i).selected_agent = ClassifyIntent(inv[i].message)
        /\ inv[i].pc = "returned" => inv[i].reply \in AloneReplies(inv[i])

\* Two invocations that overlapped, one routed to a responder and one
\* handled as general, have both returned.
C16_Witness ==
    /\ inv[1].pc = "returned" /\ inv[2].pc = "returned"
    /\ inv[1].overlap /\ inv[2].overlap
    /\ inv[1].message # inv[2].message
    /\ WorkingState(1).selected_agent = "accommodation"
    /\ WorkingState(2).selected_agent = GENERAL
-----------------------------------------------------------------------------
(* The order of the workflow steps *)

WorkflowOrders ==
    { << "classify", "route_to_agent", "process_response" >>,
      << "classify", "handle_general", "process_response" >> }

IsPrefix(p, s) == Len(p) <= Len(s) /\ p = SubSeq(s, 1, Len(p))

Ran(step) == \E k \in 1..Len(trace) : trace[k] = step

\* C17: the steps an invocation has run are classify, then route_to_agent
\* or handle_general, then process_response, each at most once; it starts
\* at classify with selected_agent, response and error unset; it goes to
\* route_to_agent exactly when classify selected a domain and to
\* handle_general exactly when it selected "general"; at the end all three
\* steps have run.
C17_WorkflowOrder ==
    /\ \E order \in WorkflowOrders : IsPrefix(trace, order)
    /\ pc = "classify"
           => /\ trace = << >>
              /\ st.selected_agent = "None"
              /\ st.response = None
              /\ st.error = "None"
    /\ pc = "route_to_agent"
           => trace = << "classify" >> /\ st.selected_agent \in Domains
    /\ pc = "handle_general"
           => trace = << "classify" >> /\ st.selected_agent = GENERAL
    /\ pc = "process_response" => Len(trace) = 2
    /\ pc = "end"
           => /\ trace \in WorkflowOrders
              /\ Ran("route_to_agent") <=> st.selected_agent \in Domains
              /\ Ran("handle_general") <=> st.selected_agent = GENERAL

\* A workflow that went through a responder has ended.
C17_Witness ==
    /\ pc = "end"
    /\ trace = << "classify", "route_to_agent", "process_response" >>
    /\ agentCalls = 1

\* A workflow that went through handle_general has ended.
C17_WitnessGeneral ==
    /\ pc = "end"
    /\ trace = << "classify", "handle_general", "process_response" >>
-----------------------------------------------------------------------------
(* route_to_agent and the responder's context *)

SameId(context_id, state_id) ==
    IF state_id = None THEN context_id = None
    ELSE context_id # None /\ context_id.value = state_id.value

\* C18: once route_to_agent has run for a selected domain, the responder's
\* process was invoked exactly once, with a context holding the user id,
\* trip id, message, trip data and history of the orchestrator state; an
\* error it recorded leaves the response unset; and the canned "error"
\* reply with two suggestions is there after process_response exactly when
\* an error was recorded and no response existed.
C18_RouteBuildsContext ==
    (st # None /\ Ran("route_to_agent") /\ st.selected_agent \in Domains)
        => /\ agentCalls = 1
           /\ agentContext # None
           /\ SameId(agentContext.user_id, st.user_id)
           /\ SameId(agentContext.trip_id, st.trip_id)
           /\ agentContext.message = st.message
           /\ agentContext.trip_data = st.trip_data
           /\ agentContext.conversation_history = st.conversation_history
           /\ (pc = "process_response" /\ Truthy(st.error)) => st.response = None
           /\ pc = "end" =>
                  (Truthy(st.error) <=>
                       /\ st.response.agent_type = "error"
                       /\ Len(st.response.suggestions) = 2)
-----------------------------------------------------------------------------
(* handle_general and the provider *)

\* C19: a turn for which no domain matched and whose provider call did not
\* fail has called the provider once, through generate, with the general
\* system prompt and the history followed by the user message; it has
\* invoked no responder; and its reply is the provider's text with
\* agent_type "general" and the four fixed suggestions.
C19_GeneralCallsProvider ==
    (pc = "end" /\ Ran("handle_general") /\ st.error # "ProviderError")
        => /\ llmCalls = 1
           /\ llmRequest # None
           /\ llmRequest.method = "generate"
           /\ llmRequest.system_prompt = "general"
           /\ llmRequest.messages = GeneralMessages(st)
           /\ agentCalls = 0
           /\ st.response =
                  [ message     |-> AI_CONTENT,
                    agent_type  |-> "general",
                    suggestions |-> GENERAL_SUGGESTIONS ]
-----------------------------------------------------------------------------
(* The rows a chat turn leaves in the conversation *)

\* C20: when a chat turn is over, the last two rows of the conversation are
\* its user message and, right after it, the assistant reply to it.
C20_TurnPersistsBothMessages ==
    (pc = "done" /\ caller = "chat" /\ failure # "refused" /\ st # None)
        => /\ Len(store) >= 2
           /\ store[Len(store) - 1].role = "user"
           /\ store[Len(store) - 1].content = st.message
           /\ store[Len(store)].role = "assistant"
-----------------------------------------------------------------------------
(* AccommodationAgent.process applied to messages with and without a
   place, under every trip snapshot, with each answer of the search *)

\* "Toi muon dat khach san", with its diacritics: the message of
\* test_process_info_gathering
BookHotelMessage ==
    <<"T", "o^", "i", " ", "m", "u", "o^'", "n", " ", "dd", "a(.", "t", " ", "k", "h", "a'", "c", "h", " ", "s", "a.", "n">>

\* "Khach san cho 3 nguoi", with its diacritics
HotelForThreeMessage ==
    <<"K", "h", "a'", "c", "h", " ", "s", "a.", "n", " ", "c", "h", "o", " ", "3", " ", "n", "g", "u+", "o+_", "i">>

LodgingMessages == {Msg1, BookHotelMessage, HotelForThreeMessage}

\* The lodging responder about to run process(context).
InitLodging ==
    /\ \E message \in LodgingMessages, trip_data \in PromptSnapshots :
           fnInput = AgentContext(IntVal(1), None, message, << >>, trip_data)
    /\ fnOutput = None
    /\ pc = "process"
    /\ store = << >>
    /\ caller = "direct"
    /\ failure = "none"
    /\ st = None
    /\ trace = << >>
    /\ agentReply = None
    /\ agentCalls = 0
    /\ agentFault = "none"
    /\ searchCall = None
    /\ agentContext = None
    /\ llmRequest = None
    /\ inv = << >>
    /\ llmCalls = 0
    /\ reply = None
    /\ events = << >>
    /\ chunkAt = 0
    /\ http = 0
    /\ db = EmptyDb

CallAccommodationProcess ==
    /\ pc = "process"
    /\ \E upstream \in UpstreamOutcomes :
           fnOutput' = AccommodationProcess(fnInput, SearchHotels(upstream))
    /\ pc' = "processed"
    /\ UNCHANGED << store, caller, failure, st, trace, agentReply, agentCalls,
                    agentFault, searchCall, agentContext, llmRequest, inv,
                    fnInput, llmCalls, reply, events, chunkAt, http, db >>

NextLodging == CallAccommodationProcess

SpecLodging == InitLodging /\ [][NextLodging]_vars

\* A location is known: the message names a place, or the snapshot has a
\* destination.
LocationKnown(context) ==
    \/ Len(ExtractEntities(context.message).locations) > 0
    \/ /\ context.trip_data # None
       /\ TruthyValue(DictGet(context.trip_data, "destination", None))

-----------------------------------------------------------------------------
(* The sub-intent classifiers applied to texts that put keywords of
   several sets side by side, in either order *)

\* The responders that have a sub-intent classifier.
IntentAgents == {"food", "transport", "itinerary", "budget"}

\* _determine_intent / _determine_transport_intent of a responder
DetermineIntent(name, message) ==
    CASE name = "food"      -> FoodIntent(message)
      [] name = "transport" -> TransportIntent(message)
      [] name = "itinerary" -> ItineraryIntent(message)
      [] name = "budget"    -> BudgetIntent(message)

\* The most fragments in a text.
MaxIntentWords == 2

\* One keyword of every set, a second keyword of some, a text in capitals
\* and a text with no keyword.
IntentFragments ==
    << restaurant_keywords[1], dish_keywords[1],
       inter_city_keywords[1], local_keywords[1],
       create_keywords[1], modify_keywords[1], attraction_keywords[1],
       estimate_keywords[1], optimize_keywords[2], breakdown_keywords[3],
       Msg3, Msg2 >>

RECURSIVE JoinIntentFragments(_)
JoinIntentFragments(ks) ==
    IF Len(ks) = 0 THEN << >>
    ELSE IF Len(ks) = 1 THEN IntentFragments[ks[1]]
    ELSE IntentFragments[ks[1]] \o << " " >> \o JoinIntentFragments(Tail(ks))

IntentTexts ==
    UNION {{JoinIntentFragments(ks) : ks \in [1..n -> DOMAIN IntentFragments]} :
           n \in 1..MaxIntentWords}

\* A responder about to classify the sub-intent of a message.
InitIntent ==
    /\ \E name \in IntentAgents, message \in IntentTexts :
           fnInput = [agent |-> name, message |-> message]
    /\ fnOutput = None
    /\ pc = "determine_intent"
    /\ store = << >>
    /\ caller = "direct"
    /\ failure = "none"
    /\ st = None
    /\ trace = << >>
    /\ agentReply = None
    /\ agentCalls = 0
    /\ agentFault = "none"
    /\ searchCall = None
    /\ agentContext = None
    /\ llmRequest = None
    /\ inv = << >>
    /\ llmCalls = 0
    /\ reply = None
    /\ events = << >>
    /\ chunkAt = 0
    /\ http = 0
    /\ db = EmptyDb

CallDetermineIntent ==
    /\ pc = "determine_intent"
    /\ fnOutput' = [intent |-> DetermineIntent(fnInput.agent, fnInput.message)]
    /\ pc' = "intent"
    /\ UNCHANGED << store, caller, failure, st, trace, agentReply, agentCalls,
                    agentFault, searchCall, agentContext, llmRequest, inv,
                    fnInput, llmCalls, reply, events, chunkAt, http, db >>

NextIntent == CallDetermineIntent

SpecIntent == InitIntent /\ [][NextIntent]_vars

\* The keyword sets of each classifier in declaration order, with the
\* sub-intent each stands for.
IntentSets(name) ==
    CASE name = "food" ->
           << [intent |-> "search_restaurant", keywords |-> restaurant_keywords],
              [intent |-> "recommend_dish",    keywords |-> dish_keywords] >>
      [] name = "transport" ->
           << [intent |-> "inter_city", keywords |-> inter_city_keywords],
              [intent |-> "local",      keywords |-> local_keywords] >>
      [] name = "itinerary" ->
           << [intent |-> "create_itinerary", keywords |-> create_keywords],
              [intent |-> "modify_itinerary", keywords |-> modify_keywords],
              [intent |-> "find_attractions", keywords |-> attraction_keywords] >>
      [] name = "budget" ->
           << [intent |-> "estimate",  keywords |-> estimate_keywords],
              [intent |-> "optimize",  keywords |-> optimize_keywords],
              [intent |-> "breakdown", keywords |-> breakdown_keywords] >>

\* The sets with a keyword in the lower-cased message.
MatchingSets(name, message) ==
    {k \in DOMAIN IntentSets(name) :
        AnyKeyword(IntentSets(name)[k].keywords, LowerStr(message))}

-----------------------------------------------------------------------------
(* BudgetAgent._calculate_days applied to snapshots whose dates are left
   out, null, ISO dates in either order, or text that is no date *)

\* Dates as chat writes them: str(trip.start_date)
IsoDates ==
    { <<"2", "0", "2", "4", "-", "0", "1", "-", "0", "1">>,
      <<"2", "0", "2", "4", "-", "0", "1", "-", "0", "3">>,
      <<"2", "0", "2", "4", "-", "0", "1", "-", "0", "5">>,
      <<"2", "0", "2", "4", "-", "0", "2", "-", "2", "9">>,
      <<"2", "0", "2", "4", "-", "0", "3", "-", "0", "1">>,
      <<"2", "0", "2", "5", "-", "0", "1", "-", "1", "0">> }

\* Text that date.fromisoformat rejects
NotDates ==
    { << >>,
      <<"2", "0", "2", "4", "-", "1", "3", "-", "0", "1">>,
      <<"0", "1", "/", "0", "1", "/", "2", "0", "2", "4">>,
      <<"2", "0", "2", "3", "-", "0", "2", "-", "2", "9">> }

DateValues == {None} \cup {StrVal(s) : s \in IsoDates \cup NotDates}

\* Snapshots with start_date and end_date each left out or given.
DateSnapshots ==
    {[start_date |-> s, end_date |-> e] : s \in DateValues, e \in DateValues}
    \cup {[start_date |-> s] : s \in DateValues}
    \cup {[end_date |-> e] : e \in DateValues}
    \cup {[destination |-> TripHanoi.destination]}

\* The budget responder about to call self._calculate_days(trip_data).
InitDays ==
    /\ fnInput \in DateSnapshots
    /\ fnOutput = None
    /\ pc = "calculate_days"
    /\ store = << >>
    /\ caller = "direct"
    /\ failure = "none"
    /\ st = None
    /\ trace = << >>
    /\ agentReply = None
    /\ agentCalls = 0
    /\ agentFault = "none"
    /\ searchCall = None
    /\ agentContext = None
    /\ llmRequest = None
    /\ inv = << >>
    /\ llmCalls = 0
    /\ reply = None
    /\ events = << >>
    /\ chunkAt = 0
    /\ http = 0
    /\ db = EmptyDb

CallCalculateDays ==
    /\ pc = "calculate_days"
    /\ fnOutput' = CalculateDays(fnInput)
    /\ pc' = "days"
    /\ UNCHANGED << store, caller, failure, st, trace, agentReply, agentCalls,
                    agentFault, searchCall, agentContext, llmRequest, inv,
                    fnInput, llmCalls, reply, events, chunkAt, http, db >>

NextDays == CallCalculateDays

SpecDays == InitDays /\ [][NextDays]_vars

\* The field is there and holds an ISO date.
ValidDate(trip_data, key) ==
    /\ key \in DOMAIN trip_data
    /\ trip_data[key] # None
    /\ trip_data[key].value \in IsoDates

DayNumber(trip_data, key) == IsoOrdinal(trip_data[key].value).value

Jan(d) == StrVal(<<"2", "0", "2", "4", "-", "0", "1", "-", "0", d>>)

\* C23: _calculate_days returns (end - start in days) + 1 for two valid
\* ISO dates (3 for 2024-01-01 to 2024-01-03, 5 to 2024-01-05), 1 when a
\* date is missing, null or unparsable, and never less than 1.
C23_DayCount ==
    pc = "days" =>
        /\ IF ValidDate(fnInput, "start_date") /\ ValidDate(fnInput, "end_date")
           THEN fnOutput.value =
                    DayNumber(fnInput, "end_date") - DayNumber(fnInput, "start_date") + 1
           ELSE fnOutput.value = 1
        /\ fnInput = [start_date |-> Jan("1"), end_date |-> Jan("3")]
               => fnOutput.value = 3
        /\ fnInput = [start_date |-> Jan("1"), end_date |-> Jan("5")]
               => fnOutput.value = 5
        /\ fnOutput.value >= 1
-----------------------------------------------------------------------------
(* _calculate_estimates applied to every day count and traveler count from
   1 up *)

\* The largest day count and traveler count.
MaxDays == 8

MaxTravelers == 8

\* The budget responder about to call self._calculate_estimates(days, travelers).
InitEstimates ==
    /\ \E days \in 1..MaxDays, travelers \in 1..MaxTravelers :
           fnInput = [days |-> days, travelers |-> travelers]
    /\ fnOutput = None
    /\ pc = "calculate_estimates"
    /\ store = << >>
    /\ caller = "direct"
    /\ failure = "none"
    /\ st = None
    /\ trace = << >>
    /\ agentReply = None
    /\ agentCalls = 0
    /\ agentFault = "none"
    /\ searchCall = None
    /\ agentContext = None
    /\ llmRequest = None
    /\ inv = << >>
    /\ llmCalls = 0
    /\ reply = None
    /\ events = << >>
    /\ chunkAt = 0
    /\ http = 0
    /\ db = EmptyDb

CallCalculateEstimates ==
    /\ pc = "calculate_estimates"
    /\ fnOutput' = CalculateEstimates(fnInput.days, fnInput.travelers)
    /\ pc' = "estimates"
    /\ UNCHANGED << store, caller, failure, st, trace, agentReply, agentCalls,
                    agentFault, searchCall, agentContext, llmRequest, inv,
                    fnInput, llmCalls, reply, events, chunkAt, http, db >>

NextEstimates == CallCalculateEstimates

SpecEstimates == InitEstimates /\ [][NextEstimates]_vars

EstimateKeys == {"accommodation", "food", "transport", "activities"}

\* The estimated totals of the structure, category by category.
Totals(estimates) ==
    [ accommodation |-> << estimates.accommodation.budget.total,
                           estimates.accommodation.mid_range.total,
                           estimates.accommodation.luxury.total >>,
      food          |-> << estimates.food.budget.total,
                           estimates.food.mid_range.total,
                           estimates.food.luxury.total >>,
      transport     |-> << estimates.transport.local.total >>,
      activities    |-> << estimates.activities.total >> ]

\* Every total of  more  is twice the matching total of  less .
Doubled(less, more) ==
    \A key \in EstimateKeys :
        \A k \in 1..Len(Totals(less)[key]) :
            Totals(more)[key][k] = 2 * Totals(less)[key][k]

\* C24: for a day count and a traveler count of at least 1 the estimate has
\* the keys accommodation, food, transport and activities, every category
\* total is positive, and doubling the days or doubling the travelers
\* doubles every category total.
C24_EstimatesScale ==
    pc = "estimates" =>
        /\ DOMAIN fnOutput = EstimateKeys
        /\ \A key \in EstimateKeys :
               \A k \in 1..Len(Totals(fnOutput)[key]) : Totals(fnOutput)[key][k] > 0
        /\ Doubled(fnOutput, CalculateEstimates(2 * fnInput.days, fnInput.travelers))
        /\ Doubled(fnOutput, CalculateEstimates(fnInput.days, 2 * fnInput.travelers))
-----------------------------------------------------------------------------
(* The traveler count of extract_entities on texts with numbers of people
   and numbers of other things *)

\* The traveler words: nguoi, khach (with their diacritics) and traveler
traveler_words ==
    << <<"n", "g", "u+", "o+_", "i">>,
       <<"k", "h", "a'", "c", "h">>,
       <<"t", "r", "a", "v", "e", "l", "e", "r">> >>

\* A number at position i with a traveler word right after it.
TravelerPhraseAt(s, i) ==
    /\ DigitRun(s, i) > 0
    /\ AltLen(s, i + DigitRun(s, i) + SpaceRun(s, i + DigitRun(s, i)),
              traveler_words, 1) > 0

\* C25: extract_entities gives a traveler count exactly when the text has
\* a number followed by nguoi, khach or traveler; a number followed by
\* another word, as in "3 ngay", gives none.
C25_TravelersOnlyFromTravelerWords ==
    pc = "extracted" =>
        (fnOutput.travelers # None
            <=> \E i \in 1..Len(fnInput) : TravelerPhraseAt(fnInput, i))
-----------------------------------------------------------------------------
(* Classification scores and the choice among domains with equal scores *)

\* The entries of a domain's keyword list that occur in the lower-cased
\* message.
OccurringKeywords(d, message) ==
    {i \in 1..Len(intent_keywords[d]) :
        Contains(intent_keywords[d][i], LowerStr(message))}

\* A word of the vocabulary said twice.
Twice(w) == w \o << " " >> \o w

\* C26: a domain's score is the number of distinct entries of its keyword
\* list occurring in the lower-cased message, so a message that says a
\* word twice gets the scores and the domain of the word said once.
C26_KeywordCountsOnce ==
    Classified =>
        /\ \A d \in Domains :
               Score(d, LowerStr(st.message)) = Cardinality(OccurringKeywords(d, st.message))
        /\ \A w \in Vocabulary :
               st.message = Twice(w) =>
                   /\ \A d \in Domains :
                          Score(d, LowerStr(st.message)) = Score(d, LowerStr(w))
                   /\ st.selected_agent = ClassifyIntent(w)

\* "bay bay": the keyword bay, twice
C26_Witness ==
    /\ Classified
    /\ st.message = Twice(<<"b", "a", "y">>)
    /\ Score("transport", LowerStr(st.message)) = 1
    /\ st.selected_agent = "transport"
-----------------------------------------------------------------------------

\* The place of a domain in the fixed order.
DomainIndex(d) == CHOOSE i \in 1..Len(AgentOrder) : AgentOrder[i] = d

\* The domain the message calls for: of the domains with the most keywords
\* occurring, the first in the fixed order.
Winner(message) ==
    CHOOSE d \in MatchedDomains(message) :
        \A e \in MatchedDomains(message) :
            \/ Cardinality(OccurringKeywords(e, message))
                   < Cardinality(OccurringKeywords(d, message))
            \/ /\ Cardinality(OccurringKeywords(e, message))
                      = Cardinality(OccurringKeywords(d, message))
               /\ DomainIndex(d) <= DomainIndex(e)

\* C27: the selected domain is a function of the message alone: it has the
\* highest score, and of the domains sharing the highest non-zero score it
\* is the first in the order accommodation, food, transport, itinerary,
\* budget.
C27_ClassificationDeterministic ==
    (Classified /\ MatchedDomains(st.message) # {}) =>
        /\ AgentOrder = << "accommodation", "food", "transport", "itinerary", "budget" >>
        /\ st.selected_agent \in Domains
        /\ \A d \in Domains :
               Score(d, LowerStr(st.message)) <= Score(st.selected_agent, LowerStr(st.message))
        /\ \A d \in Domains :
               Score(d, LowerStr(st.message)) = Score(st.selected_agent, LowerStr(st.message))
                   => DomainIndex(st.selected_agent) <= DomainIndex(d)
        /\ st.selected_agent = Winner(st.message)

\* "bay pho": one transport keyword, then one food keyword; food comes
\* first in the order.
C27_Witness ==
    /\ Classified
    /\ st.message = <<"b", "a", "y", " ", "p", "h", "o+?">>
    /\ Score("food", LowerStr(st.message)) = Score("transport", LowerStr(st.message))
    /\ st.selected_agent = "food"
-----------------------------------------------------------------------------

\* C28: an invocation calls the provider at most once, whichever
\* responder or handler runs, and a provider call that failed is not made
\* again.
C28_ProviderCalledAtMostOnce ==
    /\ llmCalls <= 1
    /\ agentFault = "call_ai" => llmCalls = 1

\* An invocation over, whose one provider call failed.
C28_Witness ==
    /\ pc = "done"
    /\ agentFault = "call_ai"
    /\ llmCalls = 1
-----------------------------------------------------------------------------
(* Who can change a record attached to a trip *)

\* The request just handled was an update or a delete of a record.
RecordRequest == fnInput' # None /\ fnInput'.op \in {"update", "delete"}

\* C29: whenever a PATCH or DELETE of
\* /trips/{trip_id}/accommodations|restaurants|activities|expenses/{id} changes
\* or removes a record, that record was attached to trip_id and trip_id was
\* owned by the caller.
C29_RecordsChangeOnlyThroughOwnTrip ==
    [][ RecordRequest =>
           \A record \in db.records :
               record \notin db'.records =>
                   /\ record.trip_id = fnInput'.trip_id
                   /\ TripIsCallers(db, fnInput'.trip_id, fnInput'.user) ]_vars
-----------------------------------------------------------------------------
(* The location a responder searches with *)

\* C30: the location of the external search is the first location found in
\* the message when there is one, otherwise the destination of the trip
\* snapshot; and whenever the lodging responder makes a search, the location
\* it searches with is not empty, with or without a trip snapshot.
C30_SearchLocationNeverEmpty ==
    pc = "processed" =>
        LET found    == ExtractEntities(fnInput.message).locations
            location == SearchLocation(fnInput, found)
        IN  /\ Len(found) > 0 => location = found[1]
            /\ (Len(found) = 0 /\ HasTripData(fnInput)) =>
                   location = Destination(fnInput.trip_data)
            /\ fnOutput.request # None => Len(fnOutput.request.location) > 0
=============================================================================
